---- MODULE Spec2Model ----
(***************************************************************************)
(* The inbound/outbound filter plugins of NumberOne_OWU:                   *)
(*   mem0_memory_filter.py            (long term memory filter)            *)
(*   mem0_memory_filter_pipeline.py   (long term memory filter, robust)    *)
(*   langfuse_tracking.py             (observability filter)               *)
(*   perplexity_search.py             (search augmentation filter)         *)
(* The filters share no state: a behaviour follows one filter instance,    *)
(* named by the variable filter, through start-up and a sequence of hook   *)
(* calls made by the host.                                                 *)
(*                                                                         *)
(* Text is a sequence of one-character strings (a literal chunk of a       *)
(* template is kept as one element).  A score or a relevance threshold is  *)
(* an integer number of hundredths.                                        *)
(***************************************************************************)
EXTENDS Integers, Sequences, FiniteSets, TLC

VARIABLES
    filter,          \* the module of the Pipeline instance this behaviour follows
    valves,          \* Pipeline.Valves of the instance (and LANGFUSE_AVAILABLE)
    started,         \* on_startup has run
    user_messages,   \* memory filters: self.user_messages
    thread,          \* memory filters: self.thread  ("None", "new", "alive", "dead")
    m,               \* memory filters: self.m       ("None", "Memory")
    init_failed,     \* mem0_memory_filter_pipeline: hasattr(self, '_init_failed')
    memory_available,\* mem0_memory_filter_pipeline: self.memory_available
    orphans,         \* flush threads still running that self.thread no longer names
    langfuse,        \* langfuse_tracking: self.langfuse is not None
    active_traces,   \* langfuse_tracking: self.active_traces, by conversation key
    start_times,     \* langfuse_tracking: the keys of self.start_times (its values are never read)
    now,             \* the clock, int(time.time()); it may advance within a hook call
    last_obs,        \* history: what the tracing steps of the last hook call did
    last_search,     \* history: what the search steps of the last hook call did
    owners,          \* history: the session each element of user_messages came from
    want,            \* history: the user utterances received since user_messages was last empty
    nCalls,          \* history: number of hook calls made so far
    last_call,       \* history: the last hook call (hook, body, user)
    last_ret,        \* history: what that call gave back to the host
    last_mem,        \* history: what the memory steps of that call did
    applied,         \* history: the last helper method applied on its own (fn, args, result)
    pending,         \* the inbound call of a memory filter that is inside thread.join
    last_pipe        \* the chain of two filters under way or last run: its order, its stage,
                     \* the envelope between the hooks, and the transcripts on entry and exit

vars == <<filter, valves, started, user_messages, thread, m, init_failed,
          memory_available, orphans, langfuse, active_traces, start_times, now,
          last_obs, last_search, owners, want, nCalls, last_call, last_ret,
          last_mem, applied, pending, last_pipe>>

obsVars == <<langfuse, active_traces, start_times, last_obs>>

memVars == <<user_messages, thread, m, init_failed, memory_available, orphans,
             owners, want, last_mem>>

(***************************************************************************)
(* Bounds of the model.                                                    *)
(***************************************************************************)
MaxCalls == 4
\* Hook calls of the observability filter in one behaviour.
MaxObsCalls == 3
MaxClock == 1
\* The valve store_cycles as the host sets it for the memory filters (its
\* default is 3), and as it sets it to have every utterance flushed.
ShortCycles == 2
EveryCall == 1

(***************************************************************************)
(* Valve defaults.                                                         *)
(***************************************************************************)
memory_relevance_threshold == 70
mem_zero_user == "bailey"

MEM_A == "mem0_memory_filter"
MEM_B == "mem0_memory_filter_pipeline"
OBS == "langfuse_tracking"
SEARCH == "perplexity_search"

(***************************************************************************)
(* Text.                                                                   *)
(***************************************************************************)
SP == " "

\* the white space of str.strip() and of \s
WhiteSpace == {SP, "\t", "\n"}

RECURSIVE LStrip(_)
LStrip(t) == IF t # <<>> /\ Head(t) \in WhiteSpace THEN LStrip(Tail(t)) ELSE t

RECURSIVE RStrip(_)
RStrip(t) ==
    IF t # <<>> /\ t[Len(t)] \in WhiteSpace
    THEN RStrip(SubSeq(t, 1, Len(t) - 1)) ELSE t

\* str.strip()
Strip(t) == RStrip(LStrip(t))

\* sep.join(parts)
RECURSIVE Join(_, _)
Join(parts, sep) ==
    IF parts = <<>> THEN <<>>
    ELSE IF Len(parts) = 1 THEN parts[1]
    ELSE parts[1] \o sep \o Join(Tail(parts), sep)

\* list.insert(i, x) for 0 <= i <= len
InsertAt(s, i, x) == SubSeq(s, 1, i) \o <<x>> \o SubSeq(s, i + 1, Len(s))

\* The text without its blanks: two texts that differ only in blanks agree on it.
Squash(t) == SelectSeq(t, LAMBDA c : c \notin WhiteSpace)

(***************************************************************************)
(* The message envelope and the user record handed to a hook.              *)
(*   form "dict"    a mapping                                              *)
(*   form "json"    a str that json.loads turns into the mapping           *)
(*   form "badjson" a str that json.loads rejects                          *)
(*   form "other"   neither a mapping nor a str (a number)                 *)
(* An element of messages that is not a mapping has is_dict = FALSE.       *)
(* A content of <<>> stands for "" and for a missing content key: every    *)
(* read of it is .get("content", "") or a truth test.                      *)
(***************************************************************************)
Item(r, c) == [is_dict |-> TRUE, role |-> r, content |-> c]
BadItem == [is_dict |-> FALSE, role |-> "", content |-> <<>>]

U(c) == Item("user", c)
A(c) == Item("assistant", c)

\* The transcripts the host hands to the hooks.
Transcripts ==
    {<<>>,
     <<U(<<"a">>)>>, <<U(<<"\t", "b", "\n">>)>>, <<U(<<>>)>>, <<A(<<"a">>)>>,
     <<U(<<"a">>), A(<<SP, "b">>)>>, <<A(<<"a">>), U(<<SP, "b">>)>>,
     <<U(<<"a">>), U(<<>>)>>,
     <<BadItem>>}

Envelope(f, k, ms, cid, ch) ==
    [form |-> f, messages_key |-> k, messages |-> ms,
     conversation_id |-> cid, chat_id |-> ch]

EmptyBody == Envelope("dict", FALSE, <<>>, "", "")

\* A field of a user record holds a string; Int42 stands for a field that
\* holds the integer 42.
Int42 == "int 42"
\* str(value)
str(value) == IF value = Int42 THEN "42" ELSE value
\* isinstance(value, str)
IsString(value) == value # Int42

NoUser == [present |-> FALSE, id |-> "", email |-> "", username |-> ""]
UserId(i) == [present |-> TRUE, id |-> i, email |-> "", username |-> ""]

\* json.loads(body)
json_loads(body) == [body EXCEPT !.form = "dict"]

Returned(b) == [raised |-> FALSE, body |-> b]
\* an exception leaves the hook: the host gets no envelope
Raised(b) == [raised |-> TRUE, body |-> b]

MemBodies ==
    {Envelope("dict", TRUE, ms, "c1", "") : ms \in Transcripts}
    \cup {Envelope("json", TRUE, ms, "c1", "") : ms \in {<<>>, <<U(<<"a">>)>>}}
    \cup {Envelope(f, FALSE, <<>>, "c1", "") : f \in {"dict", "json"}}
    \cup {Envelope("badjson", FALSE, <<>>, "", ""), Envelope("other", FALSE, <<>>, "", "")}

MemUsers == {NoUser, UserId("u1")}

\* The calls of the inbound hook: every envelope without a user record, and
\* the plain ones with each user record.
MemCalls ==
    {<<body, NoUser>> : body \in MemBodies}
    \cup {<<Envelope("dict", TRUE, ms, "c1", ""), user>> :
            ms \in {<<U(<<"a">>)>>, <<U(<<"a">>), A(<<SP, "b">>)>>},
            user \in MemUsers}

\* What memory.search gives back: an exception, or a list of results.
Hit(t, s) == [memory |-> t, score |-> s]
SearchOutcomes ==
    {[raises |-> TRUE, results |-> <<>>]}
    \cup {[raises |-> FALSE, results |-> r] :
            r \in {<<>>, <<Hit(<<"m", "1">>, 90)>>,
                   <<Hit(<<"m", "1">>, 50), Hit(<<"m", "2">>, 80)>>,
                   <<Hit(<<"m", "1">>, 75), Hit(<<"m", "2">>, 95)>>,
                   <<Hit(<<SP, "\n">>, 90)>>}}

\* store_cycles = self.valves.store_cycles
store_cycles == valves.store_cycles

\* What the memory subsystem does during one inbound call.  An outcome the
\* call cannot meet is not varied: no client is created once self.m is set or
\* when neither step runs, a thread is started and the previous one waited for
\* only at the threshold, and the store is queried only by the retrieval step.
\* s is the working record of the call.  When the flush thread a call finds
\* alive ends is no outcome drawn here: it ends by a step of its own.
MemEnvs(s) ==
    LET flush == valves.enable_memory_storage /\ Len(s.user_messages) + 1 >= store_cycles
        retrieve == IF filter = MEM_A THEN valves.enable_memory_retrieval
                    ELSE valves.enable_memory_search
        Varied(c) == IF c THEN BOOLEAN ELSE {TRUE}
    IN  [init1 : Varied(flush /\ s.m = "None"),     \* Memory.from_config succeeds, first attempt of the call
         init2 : Varied(retrieve /\ s.m = "None"),  \* ... second attempt of the call
         start : Varied(flush),                     \* Thread.start succeeds
         search : IF retrieve THEN SearchOutcomes   \* what memory.search gives back
                  ELSE {[raises |-> TRUE, results |-> <<>>]}]

(***************************************************************************)
(* The working record of one inbound call of a memory filter: the fields   *)
(* of self it reads and writes, the all_messages list it mutates, and what *)
(* the call did (obs), kept for the properties.                            *)
(***************************************************************************)
NoMemObs ==
    [appended |-> FALSE,      \* an utterance was appended to user_messages
     threshold |-> FALSE,     \* len(user_messages) >= store_cycles was found
     flushed |-> FALSE,       \* a flush thread was started
     flush_text |-> <<>>,     \* ... with this text
     flush_user |-> "",       \* ... under this user id
     flush_err |-> "none",    \* "init": no memory client, "start": Thread.start raised
     waiting |-> FALSE,       \* the call has come to self.thread.join and is inside it
     prev_alive |-> FALSE,    \* self.thread was alive when the flush began
     join_wait |-> 0,         \* seconds the call spent in self.thread.join
     overlap |-> FALSE,       \* self.thread was replaced while the thread it named ran on
     search_ran |-> FALSE,    \* the retrieval step was entered
     search_failed |-> FALSE, \* ... and got no result list (no client, or search raised)
     injected |-> FALSE,      \* a memory message was inserted
     results |-> <<>>,        \* the list memory.search returned
     utterance |-> <<>>,      \* the utterance the filter took from the call
     cycles |-> <<>>,         \* history: want, with this call's user utterance
     held |-> <<>>,           \* history: owners, with this call's session if it appended
     plain |-> TRUE,          \* history: every call since the list was empty was plain or inert
     sessions |-> {}]         \* history: the sessions whose utterances the flush carries

\* join: whether the call has been through self.thread.join, and the seconds
\* it spent there
NoJoin == [done |-> FALSE, wait |-> 0]

MemWork(ms) ==
    [user_messages |-> user_messages, thread |-> thread, m |-> m,
     init_failed |-> init_failed, memory_available |-> memory_available,
     orphans |-> orphans, messages |-> ms, join |-> NoJoin, obs |-> NoMemObs]

\* self.thread.join(timeout=5) of _store_memories, join(timeout=2.0) of
\* _handle_memory_storage, in seconds
A_join_timeout == 5
B_join_timeout == 2

\* The seconds thread.join(timeout) took when it returns: the whole timeout
\* when the thread t still runs, and less (one second here) when t has ended.
JoinWait(t, timeout) == IF t = "alive" THEN timeout ELSE 1

\* a flush step that waits for no thread
Joins_never(t) == FALSE

\* "if self.thread and self.thread.is_alive()": the call goes into
\* self.thread.join
Joins(t) == t = "alive"

\* The flush threads run beside the hook and end when memory.add returns: of
\* those running when the hook is about to return, the one self.thread names
\* has ended (named) or not, and k of the others have ended.
ThreadsEnd(s, named, k) ==
    [s EXCEPT !.thread = IF s.thread = "alive" /\ named THEN "dead" ELSE s.thread,
              !.orphans = s.orphans - k]

\* self.thread = threading.Thread(...): a live thread the field named runs on, unnamed
Orphaned(t) == IF t = "alive" THEN 1 ELSE 0

(***************************************************************************)
(* mem0_memory_filter.py                                                   *)
(***************************************************************************)
\* get_memory: [m, raised]
A_get_memory(mv, init_ok) ==
    IF mv = "None"
    THEN IF init_ok THEN [m |-> "Memory", raised |-> FALSE]
                    ELSE [m |-> "None", raised |-> TRUE]
    ELSE [m |-> mv, raised |-> FALSE]

\* _store_memories: up to self.thread.join when the call has to go into it,
\* and from the return of join on when it has been through it (s.join.done);
\* s.thread is then the thread as it is when the next Thread is made
A_store_memories(s, user_id, env) ==
    IF Joins(s.thread) /\ ~s.join.done
    THEN [s EXCEPT !.obs.waiting = TRUE]
    ELSE
    LET message_text == Join(s.user_messages, <<SP>>)
        g == A_get_memory(s.m, env.init1)
        j == [s EXCEPT !.obs.prev_alive = s.join.done,
                       !.obs.join_wait = s.join.wait]
    IN  IF g.raised
        THEN [j EXCEPT !.user_messages = <<>>,
                       !.obs.flush_err = "init"]
        ELSE IF env.start
        THEN [j EXCEPT !.thread = "alive", !.m = g.m,
                       !.orphans = s.orphans + Orphaned(s.thread),
                       !.user_messages = <<>>,
                       !.obs.overlap = s.thread = "alive",
                       !.obs.flushed = TRUE,
                       !.obs.flush_text = message_text,
                       !.obs.flush_user = user_id]
        ELSE [j EXCEPT !.thread = "new", !.m = g.m,
                       !.orphans = s.orphans + Orphaned(s.thread),
                       !.user_messages = <<>>,
                       !.obs.overlap = s.thread = "alive",
                       !.obs.flush_err = "start"]

MEMORY_CONTEXT_PREFIX ==
    <<"This is your inner voice talking, you remember this about the person you're chatting with: ">>

\* A_add_memory_context that takes a failed query for an empty memory and
\* inserts the template all the same
A_add_memory_context_on_failure(s, last_message, user_id, env) ==
    LET g == A_get_memory(s.m, env.init2)
        s1 == [s EXCEPT !.obs.search_ran = TRUE]
        relevant_memories ==
            SelectSeq(env.search.results,
                      LAMBDA mem : mem.score >= memory_relevance_threshold)
        best_memory == IF g.raised \/ env.search.raises \/ relevant_memories = <<>>
                       THEN <<>> ELSE relevant_memories[1].memory
    IN  IF ~g.raised /\ ~env.search.raises /\ relevant_memories = <<>>
        THEN [s1 EXCEPT !.m = g.m]
        ELSE [s1 EXCEPT
                !.m = g.m,
                !.obs.search_failed = g.raised \/ env.search.raises,
                !.messages = InsertAt(s.messages, 0,
                    [is_dict |-> TRUE, role |-> "system",
                     content |-> MEMORY_CONTEXT_PREFIX \o best_memory]),
                !.obs.injected = TRUE]

A_add_memory_context(s, last_message, user_id, env) ==
    LET g == A_get_memory(s.m, env.init2)
        s1 == [s EXCEPT !.obs.search_ran = TRUE]
    IN  IF g.raised THEN [s1 EXCEPT !.obs.search_failed = TRUE]
        ELSE IF env.search.raises
        THEN [s1 EXCEPT !.m = g.m, !.obs.search_failed = TRUE]
        ELSE LET memories == env.search.results
                 relevant_memories ==
                     SelectSeq(memories,
                               LAMBDA mem : mem.score >= memory_relevance_threshold)
             IN  IF memories # <<>> /\ relevant_memories # <<>>
                 THEN [s1 EXCEPT
                         !.m = g.m,
                         !.messages = InsertAt(s.messages, 0,
                             [is_dict |-> TRUE, role |-> "system",
                              content |-> MEMORY_CONTEXT_PREFIX
                                          \o relevant_memories[1].memory]),
                         !.obs.results = memories,
                         !.obs.injected = TRUE]
                 ELSE [s1 EXCEPT !.m = g.m, !.obs.results = memories]

\* Pipeline.inlet: [ret, s]
A_inlet(s, body, user, env) ==
    LET user_id == IF user.present /\ user.id # "" THEN user.id ELSE mem_zero_user
    IN  IF body.form = "badjson" THEN [ret |-> Raised(body), s |-> s]
        ELSE IF body.form = "other" THEN [ret |-> Raised(body), s |-> s]
        ELSE
        LET b == IF body.form = "json" THEN json_loads(body) ELSE body
            all_messages == b.messages
        IN  IF all_messages = <<>> THEN [ret |-> Returned(b), s |-> s]
            ELSE IF ~all_messages[Len(all_messages)].is_dict
            THEN [ret |-> Raised(body), s |-> s]
            ELSE
            LET last_message == all_messages[Len(all_messages)].content
                s0 == [s EXCEPT !.messages = all_messages]
                s1 == IF valves.enable_memory_storage
                      THEN LET a == [s0 EXCEPT
                                       !.user_messages = Append(s0.user_messages, last_message),
                                       !.obs.appended = TRUE,
                                       !.obs.utterance = last_message]
                           IN  IF Len(a.user_messages) >= store_cycles
                               THEN A_store_memories(
                                        [a EXCEPT !.obs.threshold = TRUE], user_id, env)
                               ELSE a
                      ELSE s0
                s2 == IF valves.enable_memory_retrieval /\ ~s1.obs.waiting
                      THEN A_add_memory_context(s1, last_message, user_id, env)
                      ELSE s1
            IN  [ret |-> Returned([b EXCEPT !.messages = s2.messages]), s |-> s2]

(***************************************************************************)
(* mem0_memory_filter_pipeline.py                                          *)
(***************************************************************************)
\* get_memory: the working record after it; the client is s.m when
\* s.memory_available, and None otherwise
B_get_memory(s, init_ok) ==
    IF s.m = "None" /\ ~s.init_failed
    THEN IF init_ok
         THEN [s EXCEPT !.m = "Memory", !.memory_available = TRUE]
         ELSE [s EXCEPT !.init_failed = TRUE, !.memory_available = FALSE]
    ELSE s

B_handle_memory_storage(s, message, user_id, env) ==
    LET a == [s EXCEPT !.user_messages = Append(s.user_messages, message),
                       !.obs.appended = TRUE,
                       !.obs.utterance = message]
    IN  IF Len(a.user_messages) >= store_cycles
        THEN LET g == B_get_memory([a EXCEPT !.obs.threshold = TRUE], env.init1)
             IN  IF g.memory_available
                 THEN IF Joins(g.thread) /\ ~g.join.done
                      \* the call is inside self.thread.join
                      THEN [g EXCEPT !.obs.waiting = TRUE]
                      ELSE
                      LET message_text == Join(g.user_messages, <<SP>>)
                          j == [g EXCEPT
                                  !.obs.prev_alive = g.join.done,
                                  !.obs.join_wait = g.join.wait,
                                  !.obs.overlap = g.thread = "alive"]
                      IN  IF env.start
                          THEN [j EXCEPT !.thread = "alive",
                                         !.orphans = g.orphans + Orphaned(g.thread),
                                         !.user_messages = <<>>,
                                         !.obs.flushed = TRUE,
                                         !.obs.flush_text = message_text,
                                         !.obs.flush_user = user_id]
                          \* Thread.start raised: the handler's except clause is
                          \* reached before self.user_messages.clear()
                          ELSE [j EXCEPT !.thread = "new",
                                         !.orphans = g.orphans + Orphaned(g.thread),
                                         !.obs.flush_err = "start"]
                 ELSE [g EXCEPT !.user_messages = <<>>, !.obs.flush_err = "init"]
        ELSE a

MEMORY_MESSAGE_PREFIX == <<"Context from your memory: ">>

B_handle_memory_search(s, message, user_id, env) ==
    LET g == B_get_memory([s EXCEPT !.obs.search_ran = TRUE], env.init2)
    IN  IF ~g.memory_available THEN [g EXCEPT !.obs.search_failed = TRUE]
        ELSE IF env.search.raises THEN [g EXCEPT !.obs.search_failed = TRUE]
        ELSE LET memories == env.search.results
             IN  IF memories # <<>> /\ Strip(memories[1].memory) # <<>>
                 THEN [g EXCEPT
                         !.messages = InsertAt(g.messages, 0,
                             [is_dict |-> TRUE, role |-> "system",
                              content |-> MEMORY_MESSAGE_PREFIX \o memories[1].memory]),
                         !.obs.results = memories,
                         !.obs.injected = TRUE]
                 ELSE [g EXCEPT !.obs.results = memories]

\* the loop over reversed(all_messages): [raised, text]; text = <<>> when no
\* user message with a content is found
RECURSIVE B_last_user_message(_)
B_last_user_message(ms) ==
    IF ms = <<>> THEN [raised |-> FALSE, text |-> <<>>]
    ELSE LET msg == ms[Len(ms)]
         IN  IF ~msg.is_dict THEN [raised |-> TRUE, text |-> <<>>]
             ELSE IF msg.role = "user" /\ msg.content # <<>>
             THEN [raised |-> FALSE, text |-> Strip(msg.content)]
             ELSE B_last_user_message(SubSeq(ms, 1, Len(ms) - 1))

\* Pipeline.inlet: [ret, s]
B_inlet(s, body, user, env) ==
    IF body.form = "badjson" THEN [ret |-> Returned(body), s |-> s]
    ELSE IF body.form = "other" THEN [ret |-> Returned(body), s |-> s]
    ELSE
    LET b == IF body.form = "json" THEN json_loads(body) ELSE body
    IN  IF ~b.messages_key \/ b.messages = <<>> THEN [ret |-> Returned(b), s |-> s]
        ELSE
        LET user_id == mem_zero_user
            all_messages == b.messages
            found == B_last_user_message(all_messages)
        IN  IF found.raised THEN [ret |-> Returned(b), s |-> s]
            ELSE IF found.text = <<>> THEN [ret |-> Returned(b), s |-> s]
            ELSE
            LET s0 == [s EXCEPT !.messages = all_messages]
                s1 == IF valves.enable_memory_storage
                      THEN B_handle_memory_storage(s0, found.text, user_id, env)
                      ELSE s0
                s2 == IF valves.enable_memory_search /\ ~s1.obs.waiting
                      THEN B_handle_memory_search(s1, found.text, user_id, env)
                      ELSE s1
            IN  [ret |-> Returned([b EXCEPT !.messages = s2.messages]), s |-> s2]

(***************************************************************************)
(* History of the memory filters: the session of a call, and the user      *)
(* utterance the call carries (spec 4.2: the text of the last user         *)
(* message), if it carries one.                                            *)
(***************************************************************************)
Session(body, user) ==
    [conversation |-> body.conversation_id,
     user |-> IF user.present /\ user.id # "" THEN user.id ELSE mem_zero_user]

\* the utterance the scan of reversed(all_messages) ends with; none when it
\* meets an element that is no mapping first
LastUserText(ms) == B_last_user_message(ms).text

\* the validation of the envelope: a mapping, or a str that parses to one,
\* with a messages list that is not empty
WellFormed(body) ==
    /\ body.form \in {"dict", "json"}
    /\ body.messages_key
    /\ body.messages # <<>>

\* the call is a cycle: a well-formed envelope with a user utterance
IsCycle(body) == WellFormed(body) /\ LastUserText(body.messages) # <<>>

\* the call is a plain cycle: every message of role "user" has a text, and
\* there is one
PlainCycle(body) ==
    /\ IsCycle(body)
    /\ \A i \in 1..Len(body.messages) : body.messages[i].is_dict
    /\ \A i \in 1..Len(body.messages) :
          body.messages[i].role = "user" => Strip(body.messages[i].content) # <<>>

\* the call carries no message for a filter to take
Inert(body) == ~WellFormed(body)

Range(f) == {f[i] : i \in DOMAIN f}

(***************************************************************************)
(* langfuse_tracking.py                                                    *)
(***************************************************************************)
ObsCalls ==
    {<<Envelope("dict", TRUE, ms, c[1], c[2]), NoUser>> :
        ms \in {<<U(<<"a">>)>>},
        c \in {<<"c1", "">>, <<"", "c2">>, <<"", "">>}}
    \cup {<<Envelope("dict", TRUE, ms, "c1", ""), NoUser>> : ms \in {<<>>, <<BadItem>>}}
    \cup {<<Envelope("dict", FALSE, <<>>, "c1", ""), NoUser>>,
          <<Envelope("json", TRUE, <<U(<<"a">>)>>, "c1", ""), NoUser>>,
          <<Envelope("badjson", FALSE, <<>>, "", ""), NoUser>>,
          <<Envelope("other", FALSE, <<>>, "", ""), NoUser>>,
          <<Envelope("dict", TRUE, <<U(<<"a">>)>>, "", ""), UserId("u1")>>}

\* What the tracing backend does during one hook call.
ObsEnvs ==
    [trace_ok : BOOLEAN,   \* langfuse.trace returns
     gen_ok : BOOLEAN,     \* trace.generation returns
     input_usage : BOOLEAN,\* hasattr(generation, 'input_usage'): the span object
                           \* keeps the usage it was created with under that name
     end_ok : BOOLEAN]     \* generation.end returns

NoKey == [id |-> "", sec |-> -1]

\* Token counts are integers, None is NoTokens.
NoTokens == -1

\* Valves.max_content_length
max_content_length == 10000
ELLIPSIS == <<".", ".", ".">>
NEWLINE == <<"\n">>

\* the characters of a role name
RoleChars(role) ==
    CASE role = "user" -> <<"u", "s", "e", "r">>
      [] role = "assistant" -> <<"a", "s", "s", "i", "s", "t", "a", "n", "t">>
      [] role = "system" -> <<"s", "y", "s", "t", "e", "m">>

\* _extract_input_content that cuts a long text and appends no marker
_extract_input_content_cut(messages) ==
    LET kept == IF valves.exclude_system_messages
                THEN SelectSeq(messages, LAMBDA msg : msg.role # "system")
                ELSE messages
        content_parts == [i \in 1..Len(kept) |->
                            RoleChars(kept[i].role) \o <<":", SP>> \o kept[i].content]
        full_content == Join(content_parts, NEWLINE)
    IN  IF Len(full_content) > max_content_length
        THEN SubSeq(full_content, 1, max_content_length)
        ELSE full_content

\* _extract_input_content of a list of mappings
_extract_input_content(messages) ==
    LET kept == IF valves.exclude_system_messages
                THEN SelectSeq(messages, LAMBDA msg : msg.role # "system")
                ELSE messages
        content_parts == [i \in 1..Len(kept) |->
                            RoleChars(kept[i].role) \o <<":", SP>> \o kept[i].content]
        full_content == Join(content_parts, NEWLINE)
    IN  IF Len(full_content) > max_content_length
        THEN SubSeq(full_content, 1, max_content_length) \o ELLIPSIS
        ELSE full_content

\* _estimate_tokens
_estimate_tokens(text) == Len(text) \div 4

NoObsObs ==
    [tracked |-> FALSE,       \* _should_track() held and a conversation key was resolved
     key |-> NoKey,           \* the conversation key of the call
     had_entry |-> FALSE,     \* the key was in active_traces when the call began
     had_span |-> FALSE,      \* ... with a generation that is not None
     trace_calls |-> 0,       \* calls of langfuse.trace
     gen_calls |-> 0,         \* calls of trace.generation
     end_calls |-> 0,         \* calls of generation.end
     end_ok |-> FALSE,        \* generation.end returned
     latency_ms |-> 0,        \* response_time_ms handed to generation.end
     input |-> <<>>,          \* inlet: the input text handed to trace.generation
     est_input |-> NoTokens,  \* the input token estimate of the inlet that made the span
     end_input |-> NoTokens,  \* outlet: input_tokens of the usage and of the cost
     ended_trace |-> NoKey,   \* outlet: the trace of the span generation.end was called on
     completes |-> FALSE,     \* history: the call is the outlet of the turn the last inlet began
     inlet_key |-> NoKey]     \* history: the key that inlet used

ObsWork == [active_traces |-> active_traces, start_times |-> start_times, obs |-> NoObsObs]

\* hashlib.sha256(str(user_id).encode()).hexdigest()[:16]
sha256_16(raw) ==
    CASE raw = "u1" -> "bb82030dbc2bcaba"
      [] raw = "42" -> "73475cb40a568e8d"
      [] raw = "u2" -> "6ca202c88e549dff"
      [] raw = "e1" -> "8b5cc4df7eec7d32"
      [] raw = "n1" -> "676b8bb84ce7267d"

\* _should_track that does not ask for the client
_should_track_without_client == valves.LANGFUSE_AVAILABLE /\ valves.enable_tracking

_should_track == valves.LANGFUSE_AVAILABLE /\ valves.enable_tracking /\ langfuse

_get_user_id(user) ==
    IF ~user.present THEN "anonymous"
    ELSE LET raw == IF user.id # "" THEN user.id
                    ELSE IF user.email # "" THEN user.email
                    ELSE user.username
             user_id == IF valves.anonymize_user_data /\ raw # ""
                        THEN sha256_16(str(raw)) ELSE raw
         IN  IF user_id # "" THEN user_id ELSE "anonymous"

\* _get_conversation_id that prefers the chat_id to the conversation_id
_get_conversation_id_chat_first(body, user, t) ==
    LET conv_id == IF body.chat_id # "" THEN body.chat_id
                   ELSE body.conversation_id
    IN  IF conv_id # "" THEN [id |-> conv_id, sec |-> -1]
        ELSE [id |-> str(_get_user_id(user)), sec |-> t]

\* _get_conversation_id at clock second t.  A key taken from the envelope has
\* sec = -1; a synthesized one, f"{user_id}_{int(time.time())}", has sec = t.
_get_conversation_id(body, user, t) ==
    LET conv_id == IF body.conversation_id # "" THEN body.conversation_id
                   ELSE body.chat_id
    IN  IF conv_id # "" THEN [id |-> conv_id, sec |-> -1]
        ELSE [id |-> str(_get_user_id(user)), sec |-> t]

\* _create_or_get_trace: "trace" or "None"
_create_or_get_trace(conversation_id, user, env) ==
    IF ~langfuse THEN "None"
    ELSE IF env.trace_ok THEN "trace" ELSE "None"

\* _create_generation: "span" or "None"; an element of messages that is no
\* mapping makes _extract_input_content raise, which is caught here
_create_generation(trace, body, user, env) ==
    IF trace = "None" THEN "None"
    ELSE IF \E i \in 1..Len(body.messages) : ~body.messages[i].is_dict THEN "None"
    ELSE IF env.gen_ok THEN "span" ELSE "None"

\* O_inlet that records no start time
O_inlet_unstamped(s, body, user, env, t, t2) ==
    IF ~_should_track THEN [ret |-> Returned(body), s |-> s]
    ELSE IF body.form = "badjson" THEN [ret |-> Returned(body), s |-> s]
    ELSE IF body.form = "other" THEN [ret |-> Returned(body), s |-> s]
    ELSE
    LET b == IF body.form = "json" THEN json_loads(body) ELSE body
        conversation_id == _get_conversation_id(b, user, t)
        trace == _create_or_get_trace(conversation_id, user, env)
        generation == _create_generation(trace, b, user, env)
        \* _create_generation: input_content and input_tokens
        extracted == trace # "None" /\ \A i \in 1..Len(b.messages) : b.messages[i].is_dict
        input_content == IF extracted THEN _extract_input_content(b.messages) ELSE <<>>
        input_tokens == IF extracted /\ generation # "None"
                        THEN _estimate_tokens(input_content) ELSE NoTokens
        s1 == [s EXCEPT !.obs.tracked = TRUE,
                        !.obs.key = conversation_id,
                        !.obs.had_entry = conversation_id \in DOMAIN s.active_traces,
                        !.obs.had_span =
                            /\ conversation_id \in DOMAIN s.active_traces
                            /\ s.active_traces[conversation_id].generation # "None",
                        !.obs.trace_calls = 1]
    IN  IF trace # "None"
        THEN [ret |-> Returned(b),
              s |-> [s1 EXCEPT
                       !.active_traces =
                           (conversation_id :>
                              [generation |-> generation, start_time |-> t2,
                               trace_id |-> conversation_id,
                               input_tokens |-> input_tokens])
                           @@ s.active_traces,
                       !.obs.input = input_content,
                       !.obs.est_input = input_tokens,
                       !.obs.gen_calls =
                           IF \E i \in 1..Len(b.messages) : ~b.messages[i].is_dict
                           THEN 0 ELSE 1]]
        ELSE [ret |-> Returned(b), s |-> s1]

\* Pipeline.inlet: [ret, s].  The clock is read at second t for the
\* conversation key and at second t2, after the calls of the backend, for
\* start_time.
O_inlet(s, body, user, env, t, t2) ==
    IF ~_should_track THEN [ret |-> Returned(body), s |-> s]
    ELSE IF body.form = "badjson" THEN [ret |-> Returned(body), s |-> s]
    ELSE IF body.form = "other" THEN [ret |-> Returned(body), s |-> s]
    ELSE
    LET b == IF body.form = "json" THEN json_loads(body) ELSE body
        conversation_id == _get_conversation_id(b, user, t)
        trace == _create_or_get_trace(conversation_id, user, env)
        generation == _create_generation(trace, b, user, env)
        \* _create_generation: input_content and input_tokens
        extracted == trace # "None" /\ \A i \in 1..Len(b.messages) : b.messages[i].is_dict
        input_content == IF extracted THEN _extract_input_content(b.messages) ELSE <<>>
        input_tokens == IF extracted /\ generation # "None"
                        THEN _estimate_tokens(input_content) ELSE NoTokens
        s1 == [s EXCEPT !.start_times = s.start_times \cup {conversation_id},
                        !.obs.tracked = TRUE,
                        !.obs.key = conversation_id,
                        !.obs.had_entry = conversation_id \in DOMAIN s.active_traces,
                        !.obs.had_span =
                            /\ conversation_id \in DOMAIN s.active_traces
                            /\ s.active_traces[conversation_id].generation # "None",
                        !.obs.trace_calls = 1]
    IN  IF trace # "None"
        THEN [ret |-> Returned(b),
              s |-> [s1 EXCEPT
                       !.active_traces =
                           (conversation_id :>
                              [generation |-> generation, start_time |-> t2,
                               trace_id |-> conversation_id,
                               input_tokens |-> input_tokens])
                           @@ s.active_traces,
                       !.obs.input = input_content,
                       !.obs.est_input = input_tokens,
                       !.obs.gen_calls =
                           IF \E i \in 1..Len(b.messages) : ~b.messages[i].is_dict
                           THEN 0 ELSE 1]]
        ELSE [ret |-> Returned(b), s |-> s1]

\* the mapping emptied, whatever the key
Without_clear(f, k) == [x \in {} |-> f[x]]

\* a mapping without the key k
Without(f, k) == [x \in DOMAIN f \ {k} |-> f[x]]

\* _update_generation that removes the bookkeeping entries of a conversation
\* whose generation is None
_update_generation_drops_entry(s, conversation_id, body, env, t) ==
    IF conversation_id \notin DOMAIN s.active_traces THEN s
    ELSE LET trace_data == s.active_traces[conversation_id]
             cleaned == [s EXCEPT
                           !.active_traces = Without(s.active_traces, conversation_id),
                           !.start_times = s.start_times \ {conversation_id}]
         IN  IF trace_data.generation = "None" THEN cleaned
             ELSE IF env.end_ok
             THEN [cleaned EXCEPT !.obs.end_calls = 1, !.obs.end_ok = TRUE,
                                  !.obs.latency_ms = (t - trace_data.start_time) * 1000]
             ELSE [s EXCEPT !.obs.end_calls = 1,
                            !.obs.latency_ms = (t - trace_data.start_time) * 1000]

\* _update_generation, its end_time read at clock second t
_update_generation(s, conversation_id, body, env, t) ==
    IF conversation_id \notin DOMAIN s.active_traces THEN s
    ELSE LET trace_data == s.active_traces[conversation_id]
         IN  IF trace_data.generation = "None" THEN s
             ELSE LET response_time == t - trace_data.start_time
                      \* usage={"input": input_tokens} if input_tokens else None
                      usage_none == trace_data.input_tokens <= 0
                      input_tokens == IF env.input_usage THEN trace_data.input_tokens
                                      ELSE 0
                      ended == [s EXCEPT !.obs.end_calls = 1,
                                         !.obs.latency_ms = response_time * 1000,
                                         !.obs.est_input = trace_data.input_tokens,
                                         !.obs.end_input = input_tokens,
                                         !.obs.ended_trace = trace_data.trace_id]
                  IN  \* None.get("input", 0) raises, caught by the except clause
                      IF env.input_usage /\ usage_none THEN s
                      ELSE IF env.end_ok
                      THEN [ended EXCEPT
                              !.obs.end_ok = TRUE,
                              !.active_traces = Without(s.active_traces, conversation_id),
                              !.start_times = s.start_times \ {conversation_id}]
                      ELSE ended

\* O_outlet with no except clause around generation.end: its exception
\* reaches the host
O_outlet_reraises(s, body, user, env, t, t2) ==
    IF ~_should_track \/ body.form \in {"badjson", "other"}
    THEN [ret |-> Returned(body), s |-> s]
    ELSE LET b == IF body.form = "json" THEN json_loads(body) ELSE body
             conversation_id == _get_conversation_id(b, user, t)
             had == /\ conversation_id \in DOMAIN s.active_traces
                    /\ s.active_traces[conversation_id].generation # "None"
             s1 == [s EXCEPT !.obs.tracked = TRUE,
                             !.obs.key = conversation_id,
                             !.obs.had_entry = conversation_id \in DOMAIN s.active_traces,
                             !.obs.had_span = had]
             s2 == _update_generation(s1, conversation_id, b, env, t2)
         IN  IF had /\ ~env.end_ok THEN [ret |-> Raised(body), s |-> s2]
             ELSE [ret |-> Returned(b), s |-> s2]

\* Pipeline.outlet: [ret, s].  The clock is read at second t for the
\* conversation key and at second t2 for end_time.
O_outlet(s, body, user, env, t, t2) ==
    IF ~_should_track THEN [ret |-> Returned(body), s |-> s]
    ELSE IF body.form = "badjson" THEN [ret |-> Returned(body), s |-> s]
    ELSE IF body.form = "other" THEN [ret |-> Returned(body), s |-> s]
    ELSE
    LET b == IF body.form = "json" THEN json_loads(body) ELSE body
        conversation_id == _get_conversation_id(b, user, t)
        s1 == [s EXCEPT !.obs.tracked = TRUE,
                        !.obs.key = conversation_id,
                        !.obs.had_entry = conversation_id \in DOMAIN s.active_traces,
                        !.obs.had_span =
                            /\ conversation_id \in DOMAIN s.active_traces
                            /\ s.active_traces[conversation_id].generation # "None"]
    IN  IF conversation_id \in DOMAIN s.active_traces
        THEN [ret |-> Returned(b),
              s |-> _update_generation(s1, conversation_id, b, env, t2)]
        ELSE [ret |-> Returned(b), s |-> s1]

\* A cost is in micro-dollars (round(cost, 6) keeps whole micro-dollars),
\* None is NoCost.
NoCost == [none |-> TRUE, micro |-> 0]
\* Valves.cost_per_input_token, cost_per_output_token, in micro-dollars
cost_per_input_token == 1
cost_per_output_token == 2

\* "if tokens:" of an Optional[int]
Truthy(tokens) == tokens # NoTokens /\ tokens # 0

_calculate_cost(input_tokens, output_tokens) ==
    IF ~Truthy(input_tokens) /\ ~Truthy(output_tokens) THEN NoCost
    ELSE [none |-> FALSE,
          micro |-> (IF Truthy(input_tokens)
                     THEN input_tokens * cost_per_input_token ELSE 0)
                    + (IF Truthy(output_tokens)
                       THEN output_tokens * cost_per_output_token ELSE 0)]

\* The conversation and the user of a call: what makes two calls one turn.
Turn(call) == <<call.body.conversation_id, call.body.chat_id, call.user>>

(***************************************************************************)
(* perplexity_search.py                                                    *)
(***************************************************************************)
UpperCase == <<"A", "B", "C", "D", "E", "F", "G", "H", "I", "J", "K", "L", "M",
               "N", "O", "P", "Q", "R", "S", "T", "U", "V", "W", "X", "Y", "Z">>
LowerCase == <<"a", "b", "c", "d", "e", "f", "g", "h", "i", "j", "k", "l", "m",
               "n", "o", "p", "q", "r", "s", "t", "u", "v", "w", "x", "y", "z">>
Digits == {"0", "1", "2", "3", "4", "5", "6", "7", "8", "9"}

LowerOf == [c \in {UpperCase[i] : i \in 1..Len(UpperCase)} |->
               LowerCase[CHOOSE i \in 1..Len(UpperCase) : UpperCase[i] = c]]
LowerChar(c) == IF c \in DOMAIN LowerOf THEN LowerOf[c] ELSE c

\* str.lower()
Lower(t) == [i \in 1..Len(t) |-> LowerChar(t[i])]

\* sub in t
Contains(t, sub) ==
    \E i \in 1..(Len(t) - Len(sub) + 1) :
        \A j \in 1..Len(sub) : t[i + j - 1] = sub[j]

\* t[i:].startswith(sub), i counted from 1
StartsAt(t, i, sub) ==
    /\ i + Len(sub) - 1 <= Len(t)
    /\ \A j \in 1..Len(sub) : t[i + j - 1] = sub[j]

\* \w of re
IsWordChar(c) ==
    \/ c \in Range(LowerCase) \/ c \in Range(UpperCase) \/ c \in Digits \/ c = "_"

\* \b of re between t[i] and t[i+1] (i = 0: the start, i = Len(t): the end)
WordBoundary(t, i) ==
    (i >= 1 /\ IsWordChar(t[i])) # (i < Len(t) /\ IsWordChar(t[i + 1]))

\* re.search(r'\bw\b', t)
SearchWord(t, w) ==
    \E i \in 1..Len(t) :
        /\ StartsAt(t, i, w)
        /\ WordBoundary(t, i - 1)
        /\ WordBoundary(t, i + Len(w) - 1)

\* re.search(r'\bw1\s+w2\b', t)
SearchTwoWords(t, w1, w2) ==
    \E i \in 1..Len(t) :
        /\ StartsAt(t, i, w1)
        /\ WordBoundary(t, i - 1)
        /\ \E k \in 1..(Len(t) - i) :
              /\ i + Len(w1) + k - 1 <= Len(t)
              /\ \A j \in (i + Len(w1))..(i + Len(w1) + k - 1) : t[j] \in WhiteSpace
              /\ StartsAt(t, i + Len(w1) + k, w2)
              /\ WordBoundary(t, i + Len(w1) + k + Len(w2) - 1)

manual_triggers ==
    <<<<"s", "e", "a", "r", "c", "h", ":">>,
      <<"w", "e", "b", ":">>,
      <<"f", "i", "n", "d", ":">>,
      <<"l", "o", "o", "k", "u", "p", ":">>>>

search_trigger_keywords ==
    <<<<"s", "e", "a", "r", "c", "h">>,
      <<"f", "i", "n", "d">>,
      <<"l", "o", "o", "k", "u", "p">>,
      <<"w", "h", "a", "t", " ", "i", "s">>,
      <<"w", "h", "o", " ", "i", "s">>,
      <<"w", "h", "e", "n", " ", "d", "i", "d">>,
      <<"w", "h", "e", "r", "e", " ", "i", "s">>,
      <<"h", "o", "w", " ", "t", "o">>,
      <<"l", "a", "t", "e", "s", "t">>,
      <<"r", "e", "c", "e", "n", "t">>,
      <<"c", "u", "r", "r", "e", "n", "t">>,
      <<"n", "e", "w", "s">>,
      <<"t", "o", "d", "a", "y">>,
      <<"y", "e", "s", "t", "e", "r", "d", "a", "y">>,
      <<"t", "h", "i", "s", " ", "w", "e", "e", "k">>,
      <<"t", "h", "i", "s", " ", "m", "o", "n", "t", "h">>,
      <<"2", "0", "2", "4">>,
      <<"2", "0", "2", "5">>>>

two_word_patterns ==
    <<<<<<"w", "h", "a", "t">>, <<"i", "s">>>>,
      <<<<"w", "h", "o">>, <<"i", "s">>>>,
      <<<<"w", "h", "e", "n">>, <<"d", "i", "d">>>>,
      <<<<"w", "h", "e", "r", "e">>, <<"i", "s">>>>,
      <<<<"h", "o", "w">>, <<"t", "o">>>>,
      <<<<"w", "h", "y">>, <<"d", "o", "e", "s">>>>>>

one_word_patterns ==
    <<<<"l", "a", "t", "e", "s", "t">>,
      <<"r", "e", "c", "e", "n", "t">>,
      <<"c", "u", "r", "r", "e", "n", "t">>,
      <<"n", "e", "w", "s">>,
      <<"t", "o", "d", "a", "y">>>>

\* re.search(r'\b202[4-9]\b', t)
SearchYear(t) ==
    \E d \in {"4", "5", "6", "7", "8", "9"} : SearchWord(t, <<"2", "0", "2", d>>)

_should_perform_search(message) ==
    IF ~valves.enable_auto_search /\ ~valves.enable_manual_search THEN FALSE
    ELSE LET message_lower == Lower(message)
         IN  \/ /\ valves.enable_manual_search
                /\ \E i \in 1..Len(manual_triggers) :
                       Contains(message_lower, manual_triggers[i])
             \/ /\ valves.enable_auto_search
                /\ \/ \E i \in 1..Len(search_trigger_keywords) :
                          Contains(message_lower, search_trigger_keywords[i])
                   \/ \E i \in 1..Len(two_word_patterns) :
                          SearchTwoWords(message_lower, two_word_patterns[i][1],
                                         two_word_patterns[i][2])
                   \/ \E i \in 1..Len(one_word_patterns) :
                          SearchWord(message_lower, one_word_patterns[i])
                   \/ SearchYear(message_lower)

\* re.sub(r'^(p1|p2|...)', '', query, flags=re.IGNORECASE) followed by \s* (min_ws
\* = 0) or \s+ (min_ws = 1): the first alternative that matches at the start
\* is removed with the white space after it
RECURSIVE SkipWhiteSpace(_)
SkipWhiteSpace(t) ==
    IF t # <<>> /\ Head(t) \in WhiteSpace THEN SkipWhiteSpace(Tail(t)) ELSE t

RECURSIVE SubPrefix(_, _, _)
SubPrefix(query, prefixes, min_ws) ==
    IF prefixes = <<>> THEN query
    ELSE LET p == Head(prefixes)
             rest == SubSeq(query, Len(p) + 1, Len(query))
         IN  IF /\ Len(p) <= Len(query)
                /\ StartsAt(Lower(SubSeq(query, 1, Len(p))), 1, p)
                /\ Len(rest) - Len(SkipWhiteSpace(rest)) >= min_ws
             THEN SkipWhiteSpace(rest)
             ELSE SubPrefix(query, Tail(prefixes), min_ws)

conversational_prefixes ==
    <<<<"c", "a", "n", " ", "y", "o", "u">>,
      <<"c", "o", "u", "l", "d", " ", "y", "o", "u">>,
      <<"p", "l", "e", "a", "s", "e">>,
      <<"h", "e", "l", "p", " ", "m", "e">>>>

max_query_length == 200

_clean_search_query(query) ==
    LET q1 == SubPrefix(query, manual_triggers, 0)
        q2 == SubPrefix(q1, conversational_prefixes, 1)
        q3 == IF Len(q2) > max_query_length
              THEN SubSeq(q2, 1, max_query_length) \o <<".", ".", ".">>
              ELSE q2
    IN  Strip(q3)

max_search_results == 5

\* the lines "i. citation\n" (markdown) or "[i] citation\n" (numbered) of
\* citations[:max_search_results], from the i-th on
RECURSIVE citation_lines(_, _, _)
citation_lines(citations, i, format) ==
    IF i > Len(citations) \/ i > max_search_results THEN <<>>
    ELSE (IF format = "markdown"
          THEN <<ToString(i), ".", SP>> \o citations[i] \o <<"\n">>
          ELSE <<"[", ToString(i), "]", SP>> \o citations[i] \o <<"\n">>)
         \o citation_lines(citations, i + 1, format)

_format_search_results(content, citations) ==
    IF valves.include_citations /\ citations # <<>>
    THEN IF valves.citation_format = "markdown"
         THEN content \o <<"\n\n**Sources:**\n">>
              \o citation_lines(citations, 1, "markdown")
         ELSE IF valves.citation_format = "numbered"
         THEN content \o <<"\n\nSources:\n">>
              \o citation_lines(citations, 1, "numbered")
         ELSE content
    ELSE content

\* What the search provider answers.
\*   "error"   requests.post raised
\*   "status"  a status code other than 200
\*   "shape"   200 with a body that has no choices[0].message.content
\*   "ok"      200 with content and citations
Answer(k, c, cs) == [kind |-> k, content |-> c, citations |-> cs]
NoAnswer == Answer("none", <<>>, <<>>)
\* "Paris is the capital." with the citation "wiki.org"
ParisAnswer == Answer("ok", <<"Paris is the capital.">>, << <<"wiki.org">> >>)
\* an answer with one citation more than max_search_results
ManyCitations ==
    Answer("ok", <<"P">>,
           [i \in 1..(max_search_results + 1) |-> <<"w", ToString(i)>>])
SearchAnswers ==
    {Answer("error", <<>>, <<>>), Answer("status", <<>>, <<>>),
     Answer("shape", <<>>, <<>>),
     Answer("ok", <<>>, <<>>),
     Answer("ok", <<"P">>, <<>>),
     ParisAnswer, ManyCitations}

\* "What is the capital of France?"
CapitalQuestion ==
    <<"W", "h", "a", "t", SP, "i", "s", SP, "t", "h", "e", SP, "c", "a",
      "p", "i", "t", "a", "l", SP, "o", "f", SP, "F", "r", "a", "n",
      "c", "e", "?">>
\* "search: latest AI news"
NewsQuery ==
    <<"s", "e", "a", "r", "c", "h", ":", SP, "l", "a", "t", "e", "s", "t",
      SP, "A", "I", SP, "n", "e", "w", "s">>
\* "hello there"
Greeting ==
    <<"h", "e", "l", "l", "o", SP, "t", "h", "e", "r", "e">>
\* "Can you search: what is the weather today"
WeatherQuery ==
    <<"C", "a", "n", SP, "y", "o", "u", SP, "s", "e", "a", "r", "c", "h",
      ":", SP, "w", "h", "a", "t", SP, "i", "s", SP, "t", "h", "e", SP,
      "w", "e", "a", "t", "h", "e", "r", SP, "t", "o", "d", "a", "y">>
\* "lookup: please a"
LookupQuery ==
    <<"l", "o", "o", "k", "u", "p", ":", SP, "p", "l", "e", "a", "s", "e",
      SP, "a">>
\* "web:" and LongQuery times "a"
LongQuery == 201
LongMessage == <<"w", "e", "b", ":">> \o [i \in 1..LongQuery |-> "a"]

NoSearchObs ==
    [decided |-> FALSE,       \* _should_perform_search returned True
     requested |-> FALSE,     \* a search request was issued
     query |-> <<>>,          \* ... with this query
     answer |-> NoAnswer,     \* ... and this answer of the provider
     inserted |-> FALSE]      \* a search context message was inserted

\* _perform_search that returns the text of a response of another status
_perform_search_error_text(query, answer) ==
    IF answer.kind = "ok"
    THEN [found |-> TRUE,
          text |-> _format_search_results(answer.content, answer.citations)]
    ELSE IF answer.kind = "status"
    THEN [found |-> TRUE, text |-> <<"Search API error">>]
    ELSE [found |-> FALSE, text |-> <<>>]

\* _perform_search: the formatted result, or "None" as <<>> with found = FALSE
_perform_search(query, answer) ==
    IF answer.kind = "ok"
    THEN [found |-> TRUE,
          text |-> _format_search_results(answer.content, answer.citations)]
    ELSE [found |-> FALSE, text |-> <<>>]

SEARCH_CONTEXT_HEAD == <<"Based on current web search results:\n\n">>
SEARCH_CONTEXT_TAIL ==
    <<"\n\nNow, please answer the user's question using this information:">>

\* _add_search_context that puts the message in front of the transcript
_add_search_context_leading(all_messages, search_results) ==
    InsertAt(all_messages, 0,
             [is_dict |-> TRUE, role |-> "system",
              content |-> SEARCH_CONTEXT_HEAD \o search_results \o SEARCH_CONTEXT_TAIL])

\* _add_search_context that puts the message behind the transcript
_add_search_context_appended(all_messages, search_results) ==
    InsertAt(all_messages, Len(all_messages),
             [is_dict |-> TRUE, role |-> "system",
              content |-> SEARCH_CONTEXT_HEAD \o search_results \o SEARCH_CONTEXT_TAIL])

\* _add_search_context: all_messages.insert(-1, ...)
_add_search_context(all_messages, search_results) ==
    InsertAt(all_messages, Len(all_messages) - 1,
             [is_dict |-> TRUE, role |-> "system",
              content |-> SEARCH_CONTEXT_HEAD \o search_results \o SEARCH_CONTEXT_TAIL])

\* Pipeline.inlet from the last message on: [ret, obs]
S_search_and_add(b, answer) ==
    LET all_messages == b.messages
        last_message == all_messages[Len(all_messages)].content
        should_search == _should_perform_search(last_message)
    IN  IF should_search /\ valves.perplexity_api_key
        THEN LET search_results == _perform_search(last_message, answer)
                 o == [NoSearchObs EXCEPT
                         !.decided = TRUE, !.requested = TRUE,
                         !.query = _clean_search_query(last_message),
                         !.answer = answer]
             IN  IF search_results.found /\ search_results.text # <<>>
                 THEN [ret |-> Returned([b EXCEPT !.messages =
                                  _add_search_context(all_messages,
                                                      search_results.text)]),
                       obs |-> [o EXCEPT !.inserted = TRUE]]
                 ELSE [ret |-> Returned(b), obs |-> o]
        ELSE [ret |-> Returned(b),
              obs |-> [NoSearchObs EXCEPT !.decided = should_search]]

\* S_inlet without "if not all_messages: return body": all_messages[-1] of an
\* empty list raises IndexError
S_inlet_unguarded(body, user, answer) ==
    IF body.form \in {"badjson", "other"} THEN [ret |-> Raised(body), obs |-> NoSearchObs]
    ELSE LET b == IF body.form = "json" THEN json_loads(body) ELSE body
         IN  IF b.messages = <<>> \/ ~b.messages[Len(b.messages)].is_dict
             THEN [ret |-> Raised(body), obs |-> NoSearchObs]
             ELSE S_search_and_add(b, answer)

\* Pipeline.inlet: [ret, obs]
S_inlet(body, user, answer) ==
    IF body.form = "badjson" THEN [ret |-> Raised(body), obs |-> NoSearchObs]
    ELSE IF body.form = "other" THEN [ret |-> Raised(body), obs |-> NoSearchObs]
    ELSE
    LET b == IF body.form = "json" THEN json_loads(body) ELSE body
        all_messages == b.messages
    IN  IF all_messages = <<>> THEN [ret |-> Returned(b), obs |-> NoSearchObs]
        ELSE IF ~all_messages[Len(all_messages)].is_dict
        THEN [ret |-> Raised(body), obs |-> NoSearchObs]
        ELSE S_search_and_add(b, answer)

\* Pipeline.outlet
S_outlet(body, user) == Returned(body)

SearchBodies ==
    {Envelope("dict", TRUE, ms, "c1", "") :
        ms \in {<<>>, <<U(<<"a">>)>>, <<U(<<"W", "e", "b", ":", "a">>)>>,
                <<U(<<"n", "e", "w", "s">>)>>,
                <<U(<<"a">>), A(<<"a">>), U(<<"w", "e", "b", ":", "a">>)>>,
                <<U(<<"w", "e", "b", ":", "a">>), A(<<"a">>)>>,
                <<U(<<"a">>), A(<<"w", "e", "b", ":", "a">>)>>,
                <<U(CapitalQuestion)>>, <<U(NewsQuery)>>, <<U(Greeting)>>,
                <<U(WeatherQuery)>>, <<U(LookupQuery)>>, <<U(LongMessage)>>,
                <<BadItem>>}}
    \cup {Envelope("json", TRUE, ms, "c1", "") :
            ms \in {<<>>, <<U(<<"w", "e", "b", ":", "a">>)>>}}
    \cup {Envelope("dict", FALSE, <<>>, "c1", ""),
          Envelope("badjson", FALSE, <<>>, "", ""),
          Envelope("other", FALSE, <<>>, "", "")}

(***************************************************************************)
(* Construction and the host's calls.                                      *)
(***************************************************************************)
DefaultValves ==
    [store_cycles |-> 3,
     enable_memory_storage |-> TRUE,
     enable_memory_retrieval |-> TRUE,
     enable_memory_search |-> TRUE,
     LANGFUSE_AVAILABLE |-> TRUE,      \* the langfuse package could be imported
     enable_tracking |-> TRUE,
     langfuse_keys |-> FALSE,          \* langfuse_secret_key and langfuse_public_key are set
     anonymize_user_data |-> FALSE,
     exclude_system_messages |-> FALSE,
     perplexity_api_key |-> FALSE,     \* perplexity_api_key is set
     enable_auto_search |-> TRUE,
     enable_manual_search |-> TRUE,
     include_citations |-> TRUE,
     citation_format |-> "markdown"]

\* The defaults with the credentials of the installation filled in.
Configured == [DefaultValves EXCEPT !.langfuse_keys = TRUE,
                                    !.perplexity_api_key = TRUE]

\* The installation's memory filters flush after ShortCycles utterances.
ConfiguredMem == [Configured EXCEPT !.store_cycles = ShortCycles]

ValveSets(f) ==
    CASE f = MEM_A ->
           {[ConfiguredMem EXCEPT !.enable_memory_storage = st,
                                  !.enable_memory_retrieval = re] :
              st \in BOOLEAN, re \in BOOLEAN}
      [] f = MEM_B ->
           {[ConfiguredMem EXCEPT !.enable_memory_storage = st,
                                  !.enable_memory_search = re] :
              st \in BOOLEAN, re \in BOOLEAN}
      [] f = OBS ->
           {DefaultValves,
            Configured,
            [Configured EXCEPT !.enable_tracking = FALSE],
            [Configured EXCEPT !.LANGFUSE_AVAILABLE = FALSE],
            [Configured EXCEPT !.anonymize_user_data = TRUE],
            [Configured EXCEPT !.exclude_system_messages = TRUE]}
      [] f = SEARCH ->
           {DefaultValves,
            Configured,
            [Configured EXCEPT !.enable_manual_search = FALSE],
            [Configured EXCEPT !.enable_auto_search = FALSE],
            [Configured EXCEPT !.enable_auto_search = FALSE,
                               !.enable_manual_search = FALSE],
            [Configured EXCEPT !.include_citations = FALSE],
            [Configured EXCEPT !.citation_format = "numbered"]}

Filters == {MEM_A, MEM_B, OBS, SEARCH}

NotApplied == [fn |-> "none", args |-> <<>>, result |-> <<>>]

NoPipe == [order |-> "none", stage |-> "none", entry |-> <<>>,
           between |-> EmptyBody, exit |-> <<>>, returned |-> FALSE]

\* No call is inside thread.join.
NoPending ==
    [stage |-> "none",        \* "joining": inside thread.join; "joined": join has returned
     chain |-> "none",        \* the place of the call in a chain of two filters, if in one
     body |-> EmptyBody, user |-> NoUser,
     wait |-> 0,              \* the seconds thread.join took
     pre |-> [user_messages |-> <<>>, m |-> "None", init_failed |-> FALSE,
              memory_available |-> FALSE]]   \* the fields as the call found them

NoCall == [hook |-> "none", body |-> EmptyBody, user |-> NoUser]

\* Pipeline.__init__: the fields of a filter just constructed
Constructed ==
    /\ started = FALSE
    /\ user_messages = <<>>
    /\ thread = "None"
    /\ m = "None"
    /\ init_failed = FALSE
    /\ memory_available = FALSE
    /\ orphans = 0
    /\ langfuse = FALSE
    /\ active_traces = <<>>
    /\ start_times = {}
    /\ now = 0
    /\ last_obs = NoObsObs
    /\ last_search = NoSearchObs
    /\ owners = <<>>
    /\ want = <<>>
    /\ nCalls = 0
    /\ last_call = NoCall
    /\ last_ret = Returned(EmptyBody)
    /\ last_mem = NoMemObs
    /\ applied = NotApplied
    /\ last_pipe = NoPipe
    /\ pending = NoPending

\* A filter the host has constructed and set the valves of.
Init ==
    /\ filter \in Filters
    /\ valves \in ValveSets(filter)
    /\ Constructed

\* on_startup of mem0_memory_filter.py: an eager get_memory, its failure logged
A_on_startup ==
    /\ filter = MEM_A
    /\ ~started
    /\ started' = TRUE
    /\ \E init_ok \in BOOLEAN : m' = A_get_memory(m, init_ok).m
    /\ UNCHANGED <<pending, last_pipe, applied, filter, valves, user_messages, thread, init_failed,
                   memory_available, orphans, owners, want, nCalls, last_call,
                   last_ret, last_mem, obsVars, last_search, now>>

\* on_startup of mem0_memory_filter_pipeline.py: a log line
B_on_startup ==
    /\ filter = MEM_B
    /\ ~started
    /\ started' = TRUE
    /\ UNCHANGED <<pending, last_pipe, applied, filter, valves, memVars, obsVars, last_search, now, nCalls,
                   last_call, last_ret>>

\* Pipeline.inlet of the memory filter the behaviour follows
Mem_inlet(s, body, user, env) ==
    IF filter = MEM_A THEN A_inlet(s, body, user, env) ELSE B_inlet(s, body, user, env)

\* The working record of the pending call when thread.join has returned:
\* the fields as the call found them, the threads as they are now.
PendingWork ==
    [user_messages |-> pending.pre.user_messages, thread |-> thread,
     m |-> pending.pre.m, init_failed |-> pending.pre.init_failed,
     memory_available |-> pending.pre.memory_available,
     orphans |-> orphans, messages |-> <<>>,
     join |-> [done |-> TRUE, wait |-> pending.wait], obs |-> NoMemObs]

\* The inbound hook of a memory filter returns r to the host.
MemReturns(r, body, user) ==
    LET cycles == IF IsCycle(body)
                  THEN Append(want, LastUserText(body.messages))
                  ELSE want
        held == IF r.s.obs.appended
                THEN Append(owners, Session(body, user))
                ELSE owners
    IN  /\ user_messages' = r.s.user_messages
        /\ thread' = r.s.thread
        /\ m' = r.s.m
        /\ init_failed' = r.s.init_failed
        /\ memory_available' = r.s.memory_available
        /\ orphans' = r.s.orphans
        /\ owners' = IF r.s.user_messages = <<>> THEN <<>> ELSE held
        /\ want' = IF r.s.user_messages = <<>> THEN <<>> ELSE cycles
        /\ last_mem' = [r.s.obs EXCEPT
                          !.cycles = cycles,
                          !.held = held,
                          !.plain = /\ (want = <<>> /\ owners = <<>>) \/ last_mem.plain
                                    /\ PlainCycle(body) \/ Inert(body),
                          !.sessions = IF r.s.obs.flushed THEN Range(held) ELSE {}]
        /\ last_call' = [hook |-> "inlet", body |-> body, user |-> user]
        /\ last_ret' = r.ret

\* The inbound hook comes to self.thread.join and goes into it: the fields
\* are as the hook has left them so far, and the hook has not returned.
MemJoins(r, chain, body, user) ==
    /\ user_messages' = r.s.user_messages
    /\ m' = r.s.m
    /\ init_failed' = r.s.init_failed
    /\ memory_available' = r.s.memory_available
    /\ pending' = [stage |-> "joining", chain |-> chain, body |-> body, user |-> user,
                   wait |-> 0,
                   pre |-> [user_messages |-> user_messages, m |-> m,
                            init_failed |-> init_failed,
                            memory_available |-> memory_available]]

\* The host calls the inbound hook of a memory filter, and the hook goes
\* through without a wait in thread.join.  The hook blocks the event loop
\* that runs the hooks, so no other hook runs within it; the flush threads
\* run on beside it, and any of them may have ended when it returns.
MemInlet ==
    /\ filter \in {MEM_A, MEM_B}
    /\ started
    /\ nCalls < MaxCalls
    /\ pending.stage = "none"
    /\ \E call \in MemCalls :
       \E r0 \in {Mem_inlet(MemWork(<<>>), call[1], call[2], env) :
                     env \in MemEnvs(MemWork(<<>>))} :
       \E r \in {[r0 EXCEPT !.s = ThreadsEnd(r0.s, named, k)] :
                    named \in BOOLEAN, k \in 0..r0.s.orphans} :
         /\ ~r0.s.obs.waiting
         /\ MemReturns(r, call[1], call[2])
    /\ nCalls' = nCalls + 1
    /\ UNCHANGED <<pending, last_pipe, applied, filter, valves, started, obsVars,
                   last_search, now>>

\* The host calls the inbound hook of a memory filter, and the hook comes to
\* self.thread.join with the previous flush thread alive.
MemInletJoin ==
    /\ filter \in {MEM_A, MEM_B}
    /\ started
    /\ nCalls < MaxCalls
    /\ pending.stage = "none"
    /\ \E call \in MemCalls :
       \E r \in {Mem_inlet(MemWork(<<>>), call[1], call[2], env) :
                    env \in MemEnvs(MemWork(<<>>))} :
         /\ r.s.obs.waiting
         /\ MemJoins(r, "none", call[1], call[2])
    /\ nCalls' = nCalls + 1
    /\ UNCHANGED <<last_pipe, applied, filter, valves, started, thread, orphans,
                   owners, want, last_call, last_ret, last_mem, obsVars,
                   last_search, now>>

\* self.thread.join(timeout) returns: the thread has ended, or the timeout
\* has run out with the thread alive.
JoinReturns ==
    /\ pending.stage = "joining"
    /\ pending' = [pending EXCEPT
                     !.stage = "joined",
                     !.wait = JoinWait(thread, IF filter = MEM_A THEN A_join_timeout
                                               ELSE B_join_timeout)]
    /\ UNCHANGED <<last_pipe, applied, filter, valves, started, memVars, obsVars,
                   last_search, now, nCalls, last_call, last_ret>>

\* The hook goes on from the return of self.thread.join to its own return.
MemInletResume ==
    /\ pending.stage = "joined"
    /\ pending.chain = "none"
    /\ \E r0 \in {Mem_inlet(PendingWork, pending.body, pending.user, env) :
                     env \in MemEnvs(PendingWork)} :
       \E r \in {[r0 EXCEPT !.s = ThreadsEnd(r0.s, named, k)] :
                    named \in BOOLEAN, k \in 0..r0.s.orphans} :
         MemReturns(r, pending.body, pending.user)
    /\ pending' = NoPending
    /\ UNCHANGED <<last_pipe, applied, filter, valves, started, obsVars,
                   last_search, now, nCalls>>

\* _store_memory_thread / _safe_memory_add: the flush thread self.thread names
\* ends (memory.add returned or raised; both are caught and logged)
FlushThreadEnds ==
    /\ thread = "alive"
    /\ thread' = "dead"
    /\ UNCHANGED <<pending, last_pipe, applied, filter, valves, started, user_messages, m, init_failed,
                   memory_available, orphans, owners, want, nCalls, last_call,
                   last_ret, last_mem, obsVars, last_search, now>>

\* ... a flush thread that outlived its join timeout ends
OrphanThreadEnds ==
    /\ orphans > 0
    /\ orphans' = orphans - 1
    /\ UNCHANGED <<pending, last_pipe, applied, filter, valves, started, user_messages, thread, m, init_failed,
                   memory_available, owners, want, nCalls, last_call, last_ret,
                   last_mem, obsVars, last_search, now>>

\* on_startup of langfuse_tracking.py: _initialize_langfuse when the package is
\* there and tracking is enabled; the client is made when both keys are set,
\* and a failure of its constructor is logged
O_on_startup ==
    /\ filter = OBS
    /\ ~started
    /\ started' = TRUE
    /\ \E client_ok \in BOOLEAN :
         langfuse' = (/\ valves.LANGFUSE_AVAILABLE
                      /\ valves.enable_tracking
                      /\ valves.langfuse_keys
                      /\ client_ok)
    /\ UNCHANGED <<pending, last_pipe, applied, filter, valves, memVars, active_traces, start_times, last_obs,
                   last_search, now, nCalls, last_call, last_ret>>

\* The host calls the inbound hook of the observability filter.  The hook has
\* no await that yields, so no other hook runs within it; the clock may
\* advance from now to t2 between its reads.
ObsInlet ==
    /\ filter = OBS
    /\ started
    /\ nCalls < MaxObsCalls
    /\ \E call \in ObsCalls, t2 \in now..MaxClock :
       \E r \in {O_inlet(ObsWork, call[1], call[2], env, now, t2) : env \in ObsEnvs} :
         /\ now' = t2
         /\ active_traces' = r.s.active_traces
         /\ start_times' = r.s.start_times
         /\ last_obs' = r.s.obs
         /\ last_call' = [hook |-> "inlet", body |-> call[1], user |-> call[2]]
         /\ last_ret' = r.ret
    /\ nCalls' = nCalls + 1
    /\ UNCHANGED <<pending, last_pipe, applied, filter, valves, started, memVars, langfuse, last_search>>

\* The host calls the outbound hook of the observability filter.
ObsOutlet ==
    /\ filter = OBS
    /\ started
    /\ nCalls < MaxObsCalls
    /\ \E call \in ObsCalls, t2 \in now..MaxClock :
       \E r \in {O_outlet(ObsWork, call[1], call[2], env, now, t2) : env \in ObsEnvs} :
         /\ now' = t2
         /\ active_traces' = r.s.active_traces
         /\ start_times' = r.s.start_times
         /\ last_obs' = [r.s.obs EXCEPT
                           !.completes = /\ last_call.hook = "inlet"
                                         /\ last_obs.tracked
                                         /\ Turn(last_call) = <<call[1].conversation_id,
                                                                call[1].chat_id, call[2]>>,
                           !.inlet_key = last_obs.key]
         /\ last_call' = [hook |-> "outlet", body |-> call[1], user |-> call[2]]
         /\ last_ret' = r.ret
    /\ nCalls' = nCalls + 1
    /\ UNCHANGED <<pending, last_pipe, applied, filter, valves, started, memVars, langfuse, last_search>>

\* A second passes.
Tick ==
    /\ filter = OBS
    /\ now < MaxClock
    /\ now' = now + 1
    /\ UNCHANGED <<pending, last_pipe, applied, filter, valves, started, memVars, obsVars, last_search, nCalls,
                   last_call, last_ret>>

\* on_startup of perplexity_search.py: a connection test, its failure logged
S_on_startup ==
    /\ filter = SEARCH
    /\ ~started
    /\ started' = TRUE
    /\ UNCHANGED <<pending, last_pipe, applied, filter, valves, memVars, obsVars, last_search, now, nCalls,
                   last_call, last_ret>>

\* The host calls the inbound hook of the search filter.
SearchInlet ==
    /\ filter = SEARCH
    /\ started
    /\ nCalls < MaxCalls
    /\ \E body \in SearchBodies :
       \E r \in {S_inlet(body, NoUser, answer) : answer \in SearchAnswers} :
         /\ last_search' = r.obs
         /\ last_call' = [hook |-> "inlet", body |-> body, user |-> NoUser]
         /\ last_ret' = r.ret
    /\ nCalls' = nCalls + 1
    /\ UNCHANGED <<pending, last_pipe, applied, filter, valves, started, memVars, obsVars, now>>

\* The host calls the outbound hook of the search filter.
SearchOutlet ==
    /\ filter = SEARCH
    /\ started
    /\ nCalls < MaxCalls
    /\ \E body \in SearchBodies :
         /\ last_search' = NoSearchObs
         /\ last_call' = [hook |-> "outlet", body |-> body, user |-> NoUser]
         /\ last_ret' = S_outlet(body, NoUser)
    /\ nCalls' = nCalls + 1
    /\ UNCHANGED <<pending, last_pipe, applied, filter, valves, started, memVars, obsVars, now>>

NextMem ==
    \/ A_on_startup
    \/ B_on_startup
    \/ MemInlet
    \/ MemInletJoin
    \/ JoinReturns
    \/ MemInletResume
    \/ FlushThreadEnds
    \/ OrphanThreadEnds

NextObs ==
    \/ O_on_startup
    \/ ObsInlet
    \/ ObsOutlet
    \/ Tick

NextSearch ==
    \/ S_on_startup
    \/ SearchInlet
    \/ SearchOutlet

Next ==
    \/ NextMem
    \/ NextObs
    \/ NextSearch

\* Every filter.
Spec == Init /\ [][Next]_vars

\* The memory filters.
InitMem == Init /\ filter \in {MEM_A, MEM_B}
SpecMem == InitMem /\ [][NextMem]_vars

\* The memory filters set to flush every utterance, so that every call of a
\* behaviour starts a flush thread.
InitFlush ==
    /\ filter \in {MEM_A, MEM_B}
    /\ valves = [ConfiguredMem EXCEPT !.store_cycles = EveryCall,
                                      !.enable_memory_retrieval = FALSE,
                                      !.enable_memory_search = FALSE]
    /\ Constructed
\* thread.join(timeout) returns when the timeout has run out, at the latest.
SpecFlush ==
    /\ InitFlush
    /\ [][NextMem]_vars
    /\ WF_vars(JoinReturns)

\* The observability filter.
InitObs == Init /\ filter = OBS
SpecObs == InitObs /\ [][NextObs]_vars

\* The search filter.
InitSearch == Init /\ filter = SEARCH
SpecSearch == InitSearch /\ [][NextSearch]_vars

(***************************************************************************)
(* The host hands an envelope to the inbound hooks of a memory filter and  *)
(* of the search filter, one after the other, each getting what the one    *)
(* before it returned.                                                     *)
(***************************************************************************)
PipeBodies ==
    {Envelope("dict", TRUE, ms, "c1", "") :
        ms \in {<<>>, <<U(<<"a">>)>>, <<U(<<"w", "e", "b", ":", "a">>)>>,
                <<U(<<"a">>), A(<<"a">>), U(<<"w", "e", "b", ":", "a">>)>>,
                <<U(<<"a">>), A(<<SP, "b">>)>>, <<BadItem>>}}

PipeAnswers == {Answer("error", <<>>, <<>>), Answer("ok", <<"P">>, <<>>)}

PipeOrders == {"memory_first", "search_first"}

\* The hook of one filter of the chain on the working record s of the memory
\* filter: [ret, s, mem], what the host gets back, the working record after
\* it, and whether the memory filter's hook ran
PipeHook(which, s, body, env, answer) ==
    IF which = "memory"
    THEN LET r == Mem_inlet(s, body, NoUser, env)
         IN  [ret |-> r.ret, s |-> r.s, mem |-> TRUE]
    ELSE [ret |-> S_inlet(body, NoUser, answer).ret, s |-> s, mem |-> FALSE]

\* The hook at place pos ("first", "second") of a chain of the order given
\* returns r to the host, the threads being as in s.
PipeReturns(pos, order, body, r, s) ==
    /\ user_messages' = s.user_messages
    /\ thread' = s.thread
    /\ m' = s.m
    /\ init_failed' = s.init_failed
    /\ memory_available' = s.memory_available
    /\ orphans' = s.orphans
    /\ last_mem' = IF r.mem THEN s.obs ELSE last_mem
    /\ last_pipe' = IF pos = "first"
                    THEN [order |-> order,
                          stage |-> IF r.ret.raised THEN "done" ELSE "between",
                          entry |-> body.messages,
                          between |-> IF r.ret.raised THEN EmptyBody ELSE r.ret.body,
                          exit |-> <<>>,
                          returned |-> FALSE]
                    ELSE [last_pipe EXCEPT
                            !.stage = "done",
                            !.exit = IF r.ret.raised THEN <<>> ELSE r.ret.body.messages,
                            !.returned = ~r.ret.raised]
    /\ last_call' = [hook |-> "inlet", body |-> body, user |-> NoUser]
    /\ last_ret' = r.ret

\* The host calls the inbound hook of the first filter of the chain, and the
\* hook goes through without a wait in thread.join; one chain is under way at
\* a time.  The flush threads run on beside the hook.
PipeFirst ==
    /\ filter \in {MEM_A, MEM_B}
    /\ started
    /\ nCalls < MaxCalls
    /\ pending.stage = "none"
    /\ last_pipe.stage # "between"
    /\ \E body \in PipeBodies, order \in PipeOrders :
       \E r \in {PipeHook(IF order = "memory_first" THEN "memory" ELSE "search",
                          MemWork(<<>>), body, env, answer) :
                    env \in MemEnvs(MemWork(<<>>)), answer \in PipeAnswers} :
       \E s \in {ThreadsEnd(r.s, named, k) : named \in BOOLEAN, k \in 0..r.s.orphans} :
         /\ ~r.s.obs.waiting
         /\ PipeReturns("first", order, body, r, s)
    /\ nCalls' = nCalls + 1
    /\ UNCHANGED <<pending, applied, filter, valves, started, owners, want, obsVars,
                   last_search, now>>

\* The host hands the envelope the first hook returned to the inbound hook of
\* the second filter of the chain, and the hook goes through without a wait.
PipeSecond ==
    /\ filter \in {MEM_A, MEM_B}
    /\ pending.stage = "none"
    /\ last_pipe.stage = "between"
    /\ \E r \in {PipeHook(IF last_pipe.order = "memory_first" THEN "search" ELSE "memory",
                          MemWork(<<>>), last_pipe.between, env, answer) :
                    env \in MemEnvs(MemWork(<<>>)), answer \in PipeAnswers} :
       \E s \in {ThreadsEnd(r.s, named, k) : named \in BOOLEAN, k \in 0..r.s.orphans} :
         /\ ~r.s.obs.waiting
         /\ PipeReturns("second", last_pipe.order, last_pipe.between, r, s)
    /\ UNCHANGED <<pending, applied, filter, valves, started, owners, want, obsVars,
                   last_search, now, nCalls>>

\* The memory filter's hook, called first or second in the chain, comes to
\* self.thread.join with the previous flush thread alive.
PipeJoin ==
    /\ filter \in {MEM_A, MEM_B}
    /\ started
    /\ pending.stage = "none"
    /\ \E pos \in {"first", "second"} :
       \E body \in IF pos = "first" THEN PipeBodies ELSE {last_pipe.between} :
       \E r \in {Mem_inlet(MemWork(<<>>), body, NoUser, env) :
                    env \in MemEnvs(MemWork(<<>>))} :
         /\ IF pos = "first"
            THEN last_pipe.stage # "between" /\ nCalls < MaxCalls
            ELSE last_pipe.stage = "between" /\ last_pipe.order = "search_first"
         /\ r.s.obs.waiting
         /\ MemJoins(r, pos, body, NoUser)
         /\ nCalls' = IF pos = "first" THEN nCalls + 1 ELSE nCalls
    /\ UNCHANGED <<last_pipe, applied, filter, valves, started, thread, orphans,
                   owners, want, last_call, last_ret, last_mem, obsVars,
                   last_search, now>>

\* The memory filter's hook of the chain goes on from the return of
\* self.thread.join to its own return.
PipeResume ==
    /\ pending.stage = "joined"
    /\ pending.chain # "none"
    /\ \E r \in {PipeHook("memory", PendingWork, pending.body, env, answer) :
                    env \in MemEnvs(PendingWork), answer \in PipeAnswers} :
       \E s \in {ThreadsEnd(r.s, named, k) : named \in BOOLEAN, k \in 0..r.s.orphans} :
         PipeReturns(pending.chain,
                     IF pending.chain = "first" THEN "memory_first" ELSE last_pipe.order,
                     pending.body, r, s)
    /\ pending' = NoPending
    /\ UNCHANGED <<applied, filter, valves, started, owners, want, obsVars,
                   last_search, now, nCalls>>

NextPipe ==
    \/ A_on_startup
    \/ B_on_startup
    \/ PipeFirst
    \/ PipeSecond
    \/ PipeJoin
    \/ JoinReturns
    \/ PipeResume
    \/ FlushThreadEnds
    \/ OrphanThreadEnds

\* The search filter of the pipeline reads its credential, which the host
\* has set or has left empty.
InitPipe ==
    /\ filter \in {MEM_A, MEM_B}
    /\ valves \in ValveSets(filter) \cup {DefaultValves}
    /\ Constructed
SpecPipe == InitPipe /\ [][NextPipe]_vars

(***************************************************************************)
(* The helper methods of langfuse_tracking.py applied on their own, to     *)
(* arguments drawn from the sets below.                                    *)
(***************************************************************************)
User(i, e, n) == [present |-> TRUE, id |-> i, email |-> e, username |-> n]
HelperUsers ==
    {NoUser, User("", "", ""), User("u1", "", ""), User("", "e1", ""),
     User("", "", "n1"), User("u2", "e1", "n1"), User("", "e1", "n1"),
     User(Int42, "e1", "")}

KeyBodies ==
    {Envelope("dict", TRUE, <<>>, cid, ch) : cid \in {"", "c1"}, ch \in {"", "c2"}}

MaxTokens == 3
TokenCounts == {NoTokens} \cup 0..MaxTokens \cup {500000, 1000000}

Apply(fn, args, result) ==
    /\ applied' = [fn |-> fn, args |-> args, result |-> result]
    /\ UNCHANGED <<pending, last_pipe, filter, valves, started, memVars, obsVars, last_search,
                   now, nCalls, last_call, last_ret>>

Apply_get_user_id ==
    \E user \in HelperUsers :
        Apply("_get_user_id", <<user>>, _get_user_id(user))

Apply_get_conversation_id ==
    \E body \in KeyBodies, user \in HelperUsers :
        Apply("_get_conversation_id", <<body, user, now>>,
              _get_conversation_id(body, user, now))

\* The content of a message that makes "user: " + content one character
\* longer than max_content_length.
LongContent == 9995
Long(n) == [i \in 1..n |-> "a"]
S(c) == Item("system", c)

ExtractTranscripts ==
    {<<>>, <<U(<<"a">>)>>, <<S(<<"s">>)>>,
     <<S(<<"s">>), U(<<"a">>), A(<<SP, "b">>)>>,
     <<U(<<"a">>), S(<<"s">>), U(<<>>)>>,
     <<U(Long(LongContent - 1))>>, <<U(Long(LongContent))>>,
     <<S(<<"s">>), U(Long(LongContent - 1))>>, <<S(<<"s">>), U(Long(LongContent))>>}

Apply_extract_input_content ==
    \E messages \in ExtractTranscripts :
        Apply("_extract_input_content", <<messages>>,
              _extract_input_content(messages))

Apply_calculate_cost ==
    \E input_tokens \in TokenCounts, output_tokens \in TokenCounts :
        Apply("_calculate_cost", <<input_tokens, output_tokens>>,
              _calculate_cost(input_tokens, output_tokens))

NextHelpers ==
    \/ Apply_get_user_id
    \/ Apply_get_conversation_id
    \/ Apply_calculate_cost
    \/ Apply_extract_input_content
    \/ Tick

InitHelpers == Init /\ filter = OBS
SpecHelpers == InitHelpers /\ [][NextHelpers]_vars

(***************************************************************************)
(* Properties.                                                             *)
(***************************************************************************)
\* The envelope as a mapping: a serialized envelope and the mapping it parses
\* to are the same envelope.
AsMapping(b) == IF b.form = "json" THEN json_loads(b) ELSE b

Retrieval == IF filter = MEM_A THEN valves.enable_memory_retrieval
             ELSE valves.enable_memory_search

\* C1: the inbound hook of every filter returns an envelope and raises nothing
\* to the host, whatever it is handed; handed a malformed input, it returns
\* that input unchanged.
C1_InletNeverRaises ==
    LET b == last_call.body
        \* the inputs the statement calls malformed: no mapping and no
        \* serialized mapping, or messages missing or with an element that
        \* is no mapping
        malformed == \/ b.form \in {"badjson", "other"}
                     \/ ~b.messages_key
                     \/ \E i \in 1..Len(b.messages) : ~b.messages[i].is_dict
    IN  last_call.hook = "inlet" =>
            /\ ~last_ret.raised
            /\ (malformed => AsMapping(last_ret.body) = AsMapping(last_call.body))

\* C2: handed an envelope whose messages list is empty, the inbound and the
\* outbound hook of every filter return that envelope unchanged.
C2_EmptyMessagesUnchanged ==
    (/\ last_call.hook \in {"inlet", "outlet"}
     /\ last_call.body.form \in {"dict", "json"}
     /\ last_call.body.messages_key
     /\ last_call.body.messages = <<>>) =>
        /\ ~last_ret.raised
        /\ AsMapping(last_ret.body) = AsMapping(last_call.body)

\* the observability filter, tracking, was handed an envelope with an empty
\* messages list on its inbound hook
C2_Witness ==
    /\ filter = OBS
    /\ last_call.hook = "inlet"
    /\ last_obs.tracked
    /\ last_call.body.messages_key
    /\ last_call.body.messages = <<>>

\* C3: with storage enabled, over inbound calls whose user messages all have
\* a text, no flush is dispatched before
\* the store_cycles-th call since the pending list was empty, and the
\* store_cycles-th, if no flush error occurs, dispatches one flush of the last
\* user messages of those calls joined in call order (compared up to blanks)
\* and leaves the pending list empty.
C3_FlushAfterStoreCycles ==
    (/\ last_call.hook = "inlet"
     /\ valves.enable_memory_storage
     /\ last_mem.plain) =>
        /\ (Len(last_mem.cycles) < store_cycles => ~last_mem.flushed)
        /\ (/\ IsCycle(last_call.body)
            /\ Len(last_mem.cycles) = store_cycles
            /\ last_mem.flush_err = "none") =>
               /\ last_mem.flushed
               /\ Squash(last_mem.flush_text) = Squash(Join(last_mem.cycles, <<SP>>))
               /\ user_messages = <<>>

\* C4: the text of a dispatched flush holds utterances of one session only and
\* is stored under the user id of that session.
C4_FlushOfOneSession ==
    last_mem.flushed =>
        \E sess \in last_mem.sessions :
            /\ last_mem.sessions = {sess}
            /\ last_mem.flush_user = sess.user

\* C5: an inbound call that finds the pending count at the threshold or above
\* returns with the pending list empty, so after every inbound call the
\* pending count is below store_cycles.
C5_PendingBelowThreshold ==
    last_call.hook = "inlet" =>
        /\ (last_mem.threshold => user_messages = <<>>)
        /\ Len(user_messages) < store_cycles

\* C6: when the outbound hook of a turn has run after its inbound hook, neither
\* active_traces nor start_times holds the key that inbound hook used.
C6_CompletedTurnLeavesNoEntry ==
    (last_call.hook = "outlet" /\ last_obs.completes) =>
        /\ last_obs.inlet_key \notin DOMAIN active_traces
        /\ last_obs.inlet_key \notin start_times

\* C7: an outbound call for a conversation key with an open span finalizes that
\* span once and removes the key from active_traces and start_times.
C7_OpenSpanFinalizedOnce ==
    (last_call.hook = "outlet" /\ last_obs.had_span) =>
        /\ last_obs.end_calls = 1
        /\ last_obs.end_ok
        /\ last_obs.key \notin DOMAIN active_traces
        /\ last_obs.key \notin start_times

\* C8: an outbound call for a conversation key with no open span invokes no
\* span operation, leaves active_traces and start_times as they were, and
\* returns the response envelope unchanged.
C8_OutletWithoutSpanIsNoOp ==
    [][(/\ filter = OBS
        /\ nCalls' = nCalls + 1
        /\ last_call'.hook = "outlet"
        /\ ~last_obs'.had_span) =>
           /\ last_obs'.trace_calls = 0
           /\ last_obs'.gen_calls = 0
           /\ last_obs'.end_calls = 0
           /\ active_traces' = active_traces
           /\ start_times' = start_times
           /\ ~last_ret'.raised
           /\ AsMapping(last_ret'.body) = AsMapping(last_call'.body)]_vars

\* an outbound call found an entry whose span creation had failed
C8_Witness ==
    /\ last_call.hook = "outlet"
    /\ last_obs.tracked
    /\ last_obs.had_entry
    /\ ~last_obs.had_span

\* C9: whatever tracing-backend call fails, the inbound and the outbound hook
\* of the observability filter return without raising, and the messages list
\* of the envelope they return is the one they were handed.
C9_TracingFailureIsSwallowed ==
    (filter = OBS /\ last_call.hook \in {"inlet", "outlet"}) =>
        /\ ~last_ret.raised
        /\ last_ret.body.messages = last_call.body.messages

\* an outbound call whose span finalisation raised
C9_Witness ==
    /\ filter = OBS
    /\ last_call.hook = "outlet"
    /\ last_obs.had_span
    /\ last_obs.end_calls = 1
    /\ ~last_obs.end_ok

\* C10: when the memory client cannot be created, the flush cannot be handed
\* off or the similarity query raises, the inbound hook still returns the
\* envelope; a failed query injects no memory message, and a failed storage
\* step is followed by the retrieval step of the same call.
C10_MemoryFailureIsSwallowed ==
    (/\ last_call.hook = "inlet"
     /\ (last_mem.flush_err # "none" \/ last_mem.search_failed)) =>
        /\ ~last_ret.raised
        /\ (last_mem.search_failed =>
               /\ ~last_mem.injected
               /\ last_ret.body.messages = last_call.body.messages)
        /\ (last_mem.flush_err # "none" /\ Retrieval => last_mem.search_ran)

\* the storage step found no memory client and the query of the same call failed
C10_Witness ==
    /\ last_call.hook = "inlet"
    /\ last_mem.flush_err = "init"
    /\ last_mem.search_ran
    /\ last_mem.search_failed

\* the template of the memory message with the memory text in it
MemoryMessage(text) ==
    [is_dict |-> TRUE, role |-> "system",
     content |-> (IF filter = MEM_A THEN MEMORY_CONTEXT_PREFIX
                  ELSE MEMORY_MESSAGE_PREFIX) \o text]

\* C11: when the store returned a list of results, the results below the
\* relevance threshold are discarded; if none remains the transcript is the
\* one handed in, and if any remains the transcript is the one handed in with
\* one system message in front, the template filled with the text of a
\* remaining result of the highest score.
C11_RetrievalInjectsBest ==
    (/\ last_call.hook = "inlet"
     /\ last_mem.search_ran
     /\ ~last_mem.search_failed) =>
        LET before == AsMapping(last_call.body).messages
            after == last_ret.body.messages
            remaining == SelectSeq(last_mem.results,
                             LAMBDA r : r.score >= memory_relevance_threshold)
        IN  IF remaining = <<>> THEN after = before
            ELSE \E i \in 1..Len(remaining) :
                    /\ \A j \in 1..Len(remaining) :
                          remaining[j].score <= remaining[i].score
                    /\ after = <<MemoryMessage(remaining[i].memory)>> \o before

\* The transcript returned is the one handed in with one system message put
\* immediately before its last message; that message holds the provider's
\* content and a line for each citation up to max_search_results, if
\* citations are enabled, and for no citation beyond.
SearchContextInserted ==
    LET before == AsMapping(last_call.body).messages
        after == last_ret.body.messages
        n == Len(before)
        answer == last_search.answer
    IN  /\ ~last_ret.raised
        /\ Len(after) = n + 1
        /\ SubSeq(after, 1, n - 1) = SubSeq(before, 1, n - 1)
        /\ after[n + 1] = before[n]
        /\ after[n].role = "system"
        /\ Contains(after[n].content, answer.content)
        /\ \A i \in 1..Len(answer.citations) :
              Contains(after[n].content, answer.citations[i] \o <<"\n">>)
                <=> (valves.include_citations /\ i <= max_search_results)

\* C12 as stated: on a triggered message with an API key and a response of
\* status 200 with a content, one system message is inserted immediately
\* before the last message, the other messages are kept in order, and the
\* inserted message holds the content and the citation lines.
C12_SearchContextInserted ==
    (/\ last_call.hook = "inlet"
     /\ last_search.requested
     /\ last_search.answer.kind = "ok") => SearchContextInserted

\* C12 amended: the same, for a response whose formatted result is not empty
\* (it has a content, or citations that are enabled).
C12_NonEmptySearchContextInserted ==
    (/\ last_call.hook = "inlet"
     /\ last_search.requested
     /\ last_search.answer.kind = "ok"
     /\ \/ last_search.answer.content # <<>>
        \/ valves.include_citations /\ last_search.answer.citations # <<>>) =>
        SearchContextInserted

\* "What is the capital of France?" answered "Paris is the capital." with the
\* citation "wiki.org": the transcript is the system message and the question
C12_Witness ==
    /\ last_call.hook = "inlet"
    /\ last_call.body.messages = <<U(CapitalQuestion)>>
    /\ last_search.answer = ParisAnswer
    /\ Len(last_ret.body.messages) = 2
    /\ last_ret.body.messages[1].role = "system"
    /\ Contains(last_ret.body.messages[1].content, <<"Paris is the capital.">>)
    /\ Contains(last_ret.body.messages[1].content, <<"wiki.org">>)
    /\ last_ret.body.messages[2] = U(CapitalQuestion)

\* C13: when the search request fails (transport error, a status other than
\* 200, or a body without the content path), the inbound hook returns and the
\* transcript is the one handed in.
C13_FailedSearchLeavesTranscript ==
    (/\ last_call.hook = "inlet"
     /\ last_search.requested
     /\ last_search.answer.kind \in {"error", "status", "shape"}) =>
        /\ ~last_ret.raised
        /\ last_ret.body.messages = AsMapping(last_call.body).messages

\* a request was issued for a three-message transcript and answered with a
\* status other than 200
C13_Witness ==
    /\ last_call.hook = "inlet"
    /\ last_search.requested
    /\ last_search.answer.kind = "status"
    /\ Len(last_call.body.messages) = 3

\* C14: without credentials a filter does nothing: the search filter without
\* an API key issues no request and returns the transcript handed in, the
\* observability filter without tracing keys returns the envelope handed in
\* from both hooks and keeps active_traces and start_times empty.
C14_NoCredentialsNoOp ==
    /\ (filter = SEARCH /\ ~valves.perplexity_api_key /\ last_call.hook = "inlet") =>
          /\ ~last_search.requested
          /\ last_ret.body.messages = AsMapping(last_call.body).messages
    /\ (filter = OBS /\ ~valves.langfuse_keys) =>
          /\ active_traces = <<>>
          /\ start_times = {}
          /\ (last_call.hook \in {"inlet", "outlet"} =>
                 last_ret = Returned(last_call.body))

\* the observability filter without keys was started and handed a transcript
\* on its inbound hook
C14_Witness ==
    /\ filter = OBS
    /\ ~valves.langfuse_keys
    /\ valves.enable_tracking
    /\ started
    /\ last_call.hook = "inlet"
    /\ last_call.body.messages # <<>>

\* The decision as the specification words it, over a message.
ManualTrigger(message) ==
    \E i \in 1..Len(manual_triggers) : Contains(Lower(message), manual_triggers[i])

AutoTrigger(message) ==
    \/ \E i \in 1..Len(search_trigger_keywords) :
          Contains(Lower(message), search_trigger_keywords[i])
    \/ \E i \in 1..Len(two_word_patterns) :
          SearchTwoWords(Lower(message), two_word_patterns[i][1],
                         two_word_patterns[i][2])
    \/ \E i \in 1..Len(one_word_patterns) :
          SearchWord(Lower(message), one_word_patterns[i])
    \/ SearchYear(Lower(message))

\* the inbound hook came to the decision
Decides ==
    /\ filter = SEARCH
    /\ last_call.hook = "inlet"
    /\ last_call.body.form \in {"dict", "json"}
    /\ last_call.body.messages # <<>>
    /\ last_call.body.messages[Len(last_call.body.messages)].is_dict

\* C15: the decision is taken over the latest user message of the
\* transcript: it is true exactly when the manual trigger is enabled and that
\* message contains search:, web:, find: or lookup: in any case, or the
\* automatic trigger is enabled and that message contains a keyword or
\* matches a pattern; "search: latest AI news" triggers, "hello there" with
\* the manual trigger disabled does not.
C15_SearchDecision ==
    LET ms == last_call.body.messages
        users == {i \in 1..Len(ms) : ms[i].is_dict /\ ms[i].role = "user"}
    IN  (Decides /\ users # {}) =>
            LET message == ms[CHOOSE i \in users : \A j \in users : j <= i].content
            IN  /\ last_search.decided <=>
                       \/ valves.enable_manual_search /\ ManualTrigger(message)
                       \/ valves.enable_auto_search /\ AutoTrigger(message)
                /\ (message = NewsQuery /\ valves.enable_manual_search) =>
                       last_search.decided
                /\ (message = Greeting /\ ~valves.enable_manual_search) =>
                       ~last_search.decided

\* C16: for a triggered message of leading filler and a manual prefix, in
\* either order, before the question, the query sent holds no manual prefix
\* and does not begin with a filler.
C16_QueryCleaned ==
    (/\ last_call.hook = "inlet"
     /\ last_search.requested
     /\ last_call.body.messages \in {<<U(WeatherQuery)>>, <<U(LookupQuery)>>}) =>
        /\ ~ManualTrigger(last_search.query)
        /\ \A i \in 1..Len(conversational_prefixes) :
              ~StartsAt(Lower(last_search.query), 1, conversational_prefixes[i])

\* C17: the query sent to the search provider is at most 200 characters long.
C17_QueryAtMost200 ==
    (last_call.hook = "inlet" /\ last_search.requested) =>
        Len(last_search.query) <= max_query_length

\* C18: the conversation key is the conversation_id of the envelope when it
\* has one, whatever the chat_id, the user and the clock; else the chat_id
\* when it has one; else the resolved user id with the clock second.  The
\* same envelope and user resolved again in the same second give the same key.
C18_ConversationKey ==
    /\ [](applied.fn = "_get_conversation_id" =>
            LET body == applied.args[1]
                user == applied.args[2]
                t == applied.args[3]
            IN  applied.result =
                  IF body.conversation_id # ""
                  THEN [id |-> body.conversation_id, sec |-> -1]
                  ELSE IF body.chat_id # ""
                  THEN [id |-> body.chat_id, sec |-> -1]
                  ELSE [id |-> str(_get_user_id(user)), sec |-> t])
    /\ [][(/\ applied.fn = "_get_conversation_id"
           /\ applied'.fn = "_get_conversation_id"
           /\ applied'.args = applied.args) =>
              applied'.result = applied.result]_vars

\* an envelope with a conversation_id and a chat_id was resolved for a user
\* with an id
C18_Witness ==
    /\ applied.fn = "_get_conversation_id"
    /\ applied.args[1].conversation_id = "c1"
    /\ applied.args[1].chat_id = "c2"
    /\ applied.args[2].id = "u2"
    /\ applied.result.id = "c1"

\* C19: the user id is the id of the user record if it has one, else the
\* email, else the username, else "anonymous" (also without a user record);
\* with anonymization enabled a raw id that was found is replaced with its
\* hash, which is not the raw id; the result is always a string.
C19_UserId ==
    applied.fn = "_get_user_id" =>
        LET user == applied.args[1]
            raw == IF ~user.present THEN ""
                   ELSE IF user.id # "" THEN user.id
                   ELSE IF user.email # "" THEN user.email
                   ELSE user.username
        IN  /\ IsString(applied.result)
            /\ IF raw = "" THEN applied.result = "anonymous"
               ELSE IF valves.anonymize_user_data
               THEN /\ applied.result = sha256_16(str(raw))
                    /\ applied.result # str(raw)
               ELSE str(applied.result) = str(raw)

\* C20: for token counts that are not negative, zero included, the cost is
\* input_tokens x cost_per_input_token + output_tokens x cost_per_output_token,
\* in whole micro-dollars.
C20_Cost ==
    (/\ applied.fn = "_calculate_cost"
     /\ applied.args[1] >= 0
     /\ applied.args[2] >= 0) =>
        /\ ~applied.result.none
        /\ applied.result.micro = applied.args[1] * cost_per_input_token
                                  + applied.args[2] * cost_per_output_token

\* The flush threads that are running: the one self.thread names and the
\* ones it no longer names.
InFlight == orphans + (IF thread = "alive" THEN 1 ELSE 0)

join_timeout == IF filter = MEM_A THEN A_join_timeout ELSE B_join_timeout

\* The inbound hook returns by this step, and it has started a flush thread.
ThreadStarted ==
    /\ pending'.stage = "none"
    /\ nCalls' = nCalls + 1 \/ pending.stage = "joined"
    /\ last_mem'.flushed

\* C21: a step starts a flush thread only when the thread self.thread names
\* is not alive, or when the call has been through thread.join and the join
\* lasted the whole timeout; a live thread is left running unnamed only by
\* the return of a call after a timed-out join; one step adds at most one thread to
\* those in flight; the wait in thread.join never exceeds the timeout; at
\* every moment a later one comes at which no call is inside thread.join,
\* whether or not the thread waited for ever ends; and a call that has come
\* out of thread.join can go on to its return.
C21_FlushAfterBoundedWait ==
    /\ [][ThreadStarted =>
            \/ thread # "alive"
            \/ pending.stage = "joined" /\ pending.wait = join_timeout]_vars
    /\ [][orphans' > orphans =>
            /\ thread = "alive"
            /\ pending.stage = "joined" /\ pending.wait = join_timeout]_vars
    /\ [][InFlight' <= InFlight + 1]_vars
    /\ [](pending.wait <= join_timeout)
    /\ [](last_call.hook = "inlet" =>
            /\ last_mem.overlap =>
                  last_mem.prev_alive /\ last_mem.join_wait = join_timeout
            /\ (last_mem.flushed /\ last_mem.prev_alive) => last_mem.join_wait > 0
            /\ last_mem.join_wait <= join_timeout)
    /\ []<>(pending.stage # "joining")
    /\ [](pending.stage = "joined" => ENABLED MemInletResume)

\* a call started a flush thread after its wait for the previous one timed
\* out, while a thread an earlier call had left running was still running:
\* three are in flight
C21_Witness ==
    /\ last_call.hook = "inlet"
    /\ pending.stage = "none"
    /\ last_mem.flushed
    /\ last_mem.overlap
    /\ last_mem.join_wait = join_timeout
    /\ InFlight = 3

\* C22: the input token count the outbound hook hands to generation.end in
\* the usage, and to the cost, is the estimate the inbound hook computed for
\* the span it ends.
C22_InputTokensReported ==
    (last_call.hook = "outlet" /\ last_obs.end_calls = 1) =>
        last_obs.end_input = last_obs.est_input

\* the messages of a transcript in order, each as its role, ": " and its
\* content, one per line
RECURSIVE Rendered(_)
Rendered(ms) ==
    IF ms = <<>> THEN <<>>
    ELSE RoleChars(ms[1].role) \o <<":", SP>> \o ms[1].content
         \o (IF Len(ms) > 1 THEN NEWLINE \o Rendered(Tail(ms)) ELSE <<>>)

\* C23: the recorded input text is the rendered transcript, without its
\* system messages when exclusion is enabled; a text of at most
\* max_content_length characters is recorded unchanged, a longer one as its
\* first max_content_length characters followed by "...".
C23_InputExtraction ==
    applied.fn = "_extract_input_content" =>
        LET messages == applied.args[1]
            text == Rendered(IF valves.exclude_system_messages
                             THEN SelectSeq(messages, LAMBDA msg : msg.role # "system")
                             ELSE messages)
        IN  IF Len(text) <= max_content_length
            THEN applied.result = text
            ELSE /\ Len(applied.result) = max_content_length + 3
                 /\ SubSeq(applied.result, 1, max_content_length)
                      = SubSeq(text, 1, max_content_length)
                 /\ SubSeq(applied.result, max_content_length + 1,
                           max_content_length + 3) = ELLIPSIS

\* with exclusion enabled, a transcript of a system message and a user
\* message too long to record whole was cut and marked
C23_Witness ==
    /\ applied.fn = "_extract_input_content"
    /\ valves.exclude_system_messages
    /\ applied.args[1] = <<S(<<"s">>), U(Long(LongContent))>>
    /\ Len(applied.result) = max_content_length + 3
    /\ applied.result[1] = "u"

\* C24: a hook call of the observability filter leaves the active_traces
\* entry and the start_times entry of every conversation key but its own as
\* they were, and the span an outbound call ends belongs to the trace of the
\* call's own key.
C24_TurnsAreDisjoint ==
    [][nCalls' = nCalls + 1 =>
        LET k == last_obs'.key
        IN  /\ DOMAIN active_traces' \ {k} = DOMAIN active_traces \ {k}
            /\ \A x \in DOMAIN active_traces \ {k} :
                  active_traces'[x] = active_traces[x]
            /\ start_times' \ {k} = start_times \ {k}
            /\ last_obs'.end_calls = 1 => last_obs'.ended_trace = k]_vars

\* while the turn of another conversation was open, an outbound call ended
\* the span of its own conversation and removed its entries
C24_Witness ==
    /\ last_call.hook = "outlet"
    /\ last_obs.end_ok
    /\ last_obs.ended_trace = last_obs.key
    /\ last_obs.key \notin DOMAIN active_traces
    /\ \E x \in DOMAIN active_traces :
          x # last_obs.key /\ active_traces[x].generation = "span"

\* C25: every conversation key with an entry in active_traces has an entry
\* in start_times.
C25_ActiveTraceHasStartTime == DOMAIN active_traces \subseteq start_times

\* an outbound call whose generation.end raised left the entries of its key
\* in both maps
C25_Witness ==
    /\ last_call.hook = "outlet"
    /\ last_obs.end_calls = 1
    /\ ~last_obs.end_ok
    /\ last_obs.key \in DOMAIN active_traces
    /\ last_obs.key \in start_times

\* after is before, or before with one message of role system put in
Preserved(before, after) ==
    \/ after = before
    \/ /\ Len(after) = Len(before) + 1
       /\ \E i \in 1..Len(after) :
            /\ after[i].role = "system"
            /\ before = SubSeq(after, 1, i - 1) \o SubSeq(after, i + 1, Len(after))

\* C26: when a transcript that is not empty went through a memory filter and
\* the search filter, in either order, each filter left it as it got it or
\* put in one message of role system, and the message that was last on entry
\* is last on exit.
C26_TranscriptPreserved ==
    /\ (last_pipe.stage = "between" /\ last_pipe.entry # <<>>) =>
            Preserved(last_pipe.entry, last_pipe.between.messages)
    /\ (last_pipe.returned /\ last_pipe.entry # <<>>) =>
            /\ Preserved(last_pipe.entry, last_pipe.between.messages)
            /\ Preserved(last_pipe.between.messages, last_pipe.exit)
            /\ last_pipe.exit[Len(last_pipe.exit)] = last_pipe.entry[Len(last_pipe.entry)]

\* the search filter and then the memory filter each put in a message
C26_Witness ==
    /\ last_pipe.returned
    /\ last_pipe.order = "search_first"
    /\ Len(last_pipe.entry) = 3
    /\ Len(last_pipe.between.messages) = 4
    /\ Len(last_pipe.exit) = 5

====
